---- MODULE Spec2Model ----
(***************************************************************************)
(* Model of the Perplexity - Enigma CLI request/response pipeline:         *)
(* src/src/perplexity.ts (payload builder, both transports, the SSE line   *)
(* parser and the streaming decoder), the key resolution of                *)
(* src/unnamed/part_003 (config.ts) and the interactive loop of            *)
(* src/unnamed/part_002 (index.ts).                                        *)
(*                                                                         *)
(* Text.  A JavaScript string is a sequence of atoms.  An atom is a TLA+   *)
(* string standing for a fixed run of characters ("data: ", "[DONE]", one  *)
(* JSON document, one character).  The alphabet is chosen so that no       *)
(* concatenation of atoms begins with ':' or with 'data: ' unless its      *)
(* first atom is ":" or "data: ", and so that the only JSON texts that can *)
(* be assembled are the ones JSONparse accepts below.  Bytes on the wire   *)
(* are atoms too: every atom but "0xC3" and "0xA9" is a run of ASCII bytes *)
(* and decodes to itself, "0xC3" "0xA9" is the UTF-8 encoding of U+00E9.   *)
(***************************************************************************)
EXTENDS Integers, Sequences, FiniteSets, TLC

VARIABLES
    \* ---- interactive session and the calls it makes (Spec) ----
    sessionPc,   \* position of startInteractiveSession's loop
    calls,       \* call id -> state of one askPerplexity / askPerplexityStreaming call
    stdout,      \* what process.stdout.write received, in order, tagged by call
    requests,    \* the axios.post calls issued, in order
    exitCode,    \* process.exitCode
    \* ---- parseSSELine applied to one line (SpecParse) ----
    line,        \* the input line
    result,      \* what parseSSELine returned for it
    probe,       \* what one data event holding the line and a following line did
    \* ---- the two transports called on one input (SpecAsk) ----
    pin,         \* the environment key, the config and the options of the calls
    \* ---- one function of config.ts or perplexity.ts called once ----
    args,        \* the arguments and the environment the function is called in
    ret          \* what the call returned, threw, logged and left on disk

vars == <<sessionPc, calls, stdout, requests, exitCode, line, result, probe, pin, args, ret>>

sessionVars == <<sessionPc, calls, stdout, requests, exitCode>>
parseVars == <<line, result, probe>>

(***************************************************************************)
(* Bounds of the model.                                                    *)
(***************************************************************************)
MaxLineLen == 4   \* atoms in a line handed to parseSSELine in SpecParse
MaxLines == 3     \* SSE lines the server sends over one session
MaxCalls == 2     \* questions asked in one interactive session

(***************************************************************************)
(* Atoms.                                                                  *)
(***************************************************************************)
NL == "\n"
SP == " "
COLON == ":"
DATA == "data: "
DONE == "[DONE]"
JUNK == "x"
Jpre == "{\"choices\":[{\"delta\":{\"content\":\""
Jpost == "\"}}]}"
JNumContent == "{\"choices\":[{\"delta\":{\"content\":5}}]}"
JNoDelta == "{\"choices\":[{\"finish_reason\":\"stop\"}]}"
ByteC3 == "0xC3"
ByteA9 == "0xA9"
CharE9 == "U+00E9"
CharFFFD == "U+FFFD"

\* String.prototype.trim and JSON whitespace, as far as the alphabet has it.
Whitespace == {SP, NL}

\* Characters that may stand unescaped inside a JSON string literal.
StringChars == {"a", "done", JUNK, SP, COLON, DATA, DONE, CharE9, CharFFFD}

(***************************************************************************)
(* JavaScript values.  null, undefined and strings are records with the    *)
(* same fields, so that results can be compared; objects and arrays are    *)
(* only navigated, never compared.                                         *)
(***************************************************************************)
JSnull == [t |-> "null", v |-> <<>>]
JSundefined == [t |-> "undefined", v |-> <<>>]
JSstring(s) == [t |-> "string", v |-> s]
JSnumber(n) == [t |-> "number", v |-> <<n>>]
JSobject(f) == [t |-> "object", v |-> f]
JSarray(s) == [t |-> "array", v |-> s]
\* An exception that leaves a function instead of a value.
JSthrow(message) == [t |-> "throw", v |-> message]

\* The value parseSSELine returns for the terminal frame: the string 'done'.
DoneSignal == JSstring(<<"done">>)

RECURSIVE TrimStart(_)
TrimStart(s) ==
    IF s # <<>> /\ Head(s) \in Whitespace THEN TrimStart(Tail(s)) ELSE s

RECURSIVE TrimEnd(_)
TrimEnd(s) ==
    IF s # <<>> /\ s[Len(s)] \in Whitespace
    THEN TrimEnd(SubSeq(s, 1, Len(s) - 1))
    ELSE s

Trim(s) == TrimEnd(TrimStart(s))

\* v?.[key]: undefined on null and undefined, the own property otherwise.
OptGet(v, key) ==
    CASE v.t \in {"null", "undefined"} -> JSundefined
      [] v.t = "object" ->
            IF key \in DOMAIN v.v THEN v.v[key] ELSE JSundefined
      [] v.t = "array" ->
            IF key = "0" /\ Len(v.v) >= 1 THEN v.v[1] ELSE JSundefined
      [] v.t = "string" ->
            IF key = "0" /\ Len(v.v) >= 1 THEN JSstring(<<v.v[1]>>) ELSE JSundefined
      [] OTHER -> JSundefined

ContentDoc(c) ==
    JSobject([choices |-> JSarray(<<JSobject([delta |-> JSobject([content |-> c])])>>)])

\* JSON.parse: [ok, value]; ok = FALSE stands for the SyntaxError it throws.
JSONparse(data) ==
    LET text == Trim(data) IN
    CASE text = <<JNumContent>> ->
            [ok |-> TRUE, value |-> ContentDoc(JSnumber(5))]
      [] text = <<JNoDelta>> ->
            [ok |-> TRUE,
             value |-> JSobject([choices |->
                          JSarray(<<JSobject([finish_reason |-> JSstring(<<"stop">>)])>>)])]
      [] /\ Len(text) >= 2
         /\ text[1] = Jpre
         /\ text[Len(text)] = Jpost
         /\ \A k \in 2..(Len(text) - 1) : text[k] \in StringChars ->
            [ok |-> TRUE, value |-> ContentDoc(JSstring(SubSeq(text, 2, Len(text) - 1)))]
      [] OTHER -> [ok |-> FALSE, value |-> JSundefined]

(***************************************************************************)
(* parseSSELine (perplexity.ts 165-196).                                   *)
(***************************************************************************)
\* parseSSELine without its try/catch around JSON.parse.
parseSSELine_throws(ln) ==
    IF ln = <<>> \/ Trim(ln) = <<>> THEN JSnull
    ELSE IF ln[1] = COLON THEN JSnull
    ELSE IF ln[1] # DATA THEN JSnull
    ELSE LET data == Tail(ln) IN
         IF data = <<DONE>> THEN DoneSignal
         ELSE LET parsed == JSONparse(data) IN
              IF ~parsed.ok THEN JSthrow(<<"SyntaxError">>)
              ELSE LET delta == OptGet(OptGet(OptGet(OptGet(parsed.value,
                                    "choices"), "0"), "delta"), "content")
                   IN IF delta.t = "string" THEN delta ELSE JSnull

parseSSELine(ln) ==
    IF ln = <<>> \/ Trim(ln) = <<>> THEN JSnull
    ELSE IF ln[1] = COLON THEN JSnull
    ELSE IF ln[1] # DATA THEN JSnull
    ELSE LET data == Tail(ln) IN
         IF data = <<DONE>> THEN DoneSignal
         ELSE LET parsed == JSONparse(data) IN
              IF ~parsed.ok THEN JSnull
              ELSE LET delta == OptGet(OptGet(OptGet(OptGet(parsed.value,
                                    "choices"), "0"), "delta"), "content")
                   IN IF delta.t = "string" THEN delta ELSE JSnull

(***************************************************************************)
(* Key resolution (part_003 294-296) and the payload (perplexity.ts        *)
(* 108-127).                                                               *)
(***************************************************************************)
\* a ?? b
Nullish(a, b) == IF a.t \in {"null", "undefined"} THEN b ELSE a

\* !v for a string, null or undefined
Falsy(v) == v.t \in {"null", "undefined"} \/ (v.t = "string" /\ v.v = <<>>)

resolveApiKey(envKey, config) == Nullish(envKey, config.api.key)

\* if (!apiKey)
missingKey_undefinedOnly(apiKey) == apiKey.t = "undefined"

missingKey(apiKey) == Falsy(apiKey)

MissingKeyError == <<"API key not found. Run \"enigma config\" to set it up.">>

(***************************************************************************)
(* Configuration values the pipeline reads (part_003 96-135, 303-312).     *)
(***************************************************************************)
AVAILABLE_MODELS ==
    {"sonar", "sonar-pro", "sonar-reasoning", "sonar-reasoning-pro",
     "sonar-reasoning-large", "sonar-deep-research", "sonar-large"}

defaultConfig ==
    [api |-> [key |-> JSundefined,
              base_url |-> "https://api.perplexity.ai",
              timeout |-> "60000"],
     models |-> [default |-> "sonar-pro"],
     agent |-> [temperature |-> "0.3", max_tokens |-> "4096", top_p |-> "0.9"],
     research |-> [search_mode |-> "medium"],
     output |-> [format |-> "markdown", stream |-> FALSE]]

\* The line console.error writes for a model outside AVAILABLE_MODELS.
InvalidModelWarning(model, config) ==
    [text |-> "Invalid model", model |-> model.v, available |-> AVAILABLE_MODELS,
     default |-> config.models.default]

\* A validation that hands every requested name through.
validateModelName_passThrough(model, config) ==
    IF Falsy(model) THEN [model |-> config.models.default, warned |-> FALSE, stderr |-> <<>>]
    ELSE [model |-> model.v[1], warned |-> FALSE, stderr |-> <<>>]

\* validateModelName(model, config): model is a JavaScript string or undefined;
\* stderr is what the call writes with console.error.
validateModelName(model, config) ==
    IF Falsy(model) THEN [model |-> config.models.default, warned |-> FALSE, stderr |-> <<>>]
    ELSE IF model.v[1] \in AVAILABLE_MODELS /\ Len(model.v) = 1
    THEN [model |-> model.v[1], warned |-> FALSE, stderr |-> <<>>]
    ELSE [model |-> config.models.default, warned |-> TRUE,
          stderr |-> <<InvalidModelWarning(model, config)>>]

\* A payload whose search_mode is always the config's.
buildApiPayload_configSearchMode(question, config, options, streaming) ==
    [model |-> validateModelName(options.model, config).model,
     messages |-> <<[role |-> "user", content |-> question]>>,
     stream |-> streaming,
     search_mode |-> config.research.search_mode,
     temperature |-> config.agent.temperature,
     max_tokens |-> config.agent.max_tokens,
     top_p |-> config.agent.top_p]

buildApiPayload(question, config, options, streaming) ==
    [model |-> validateModelName(options.model, config).model,
     messages |-> <<[role |-> "user", content |-> question]>>,
     stream |-> streaming,
     search_mode |-> IF options.searchMode.t \in {"null", "undefined"}
                     THEN config.research.search_mode
                     ELSE options.searchMode.v[1],
     temperature |-> config.agent.temperature,
     max_tokens |-> config.agent.max_tokens,
     top_p |-> config.agent.top_p]

(***************************************************************************)
(* The streaming decoder (perplexity.ts 224-260).                          *)
(***************************************************************************)
\* chunk.toString(): UTF-8 decoding of one chunk on its own.
RECURSIVE toString(_)
toString(chunk) ==
    IF chunk = <<>> THEN <<>>
    ELSE IF chunk[1] = ByteC3
    THEN IF Len(chunk) >= 2 /\ chunk[2] = ByteA9
         THEN <<CharE9>> \o toString(SubSeq(chunk, 3, Len(chunk)))
         ELSE <<CharFFFD>> \o toString(Tail(chunk))
    ELSE IF chunk[1] = ByteA9
    THEN <<CharFFFD>> \o toString(Tail(chunk))
    ELSE <<chunk[1]>> \o toString(Tail(chunk))

\* buffer.split('\n'): the segments between newlines, at least one.
RECURSIVE split(_)
split(s) ==
    IF \A k \in 1..Len(s) : s[k] # NL THEN <<s>>
    ELSE LET k == CHOOSE j \in 1..Len(s) :
                      s[j] = NL /\ \A h \in 1..(j - 1) : s[h] # NL
         IN <<SubSeq(s, 1, k - 1)>> \o split(SubSeq(s, k + 1, Len(s)))

\* A loop that writes the fragments of a chunk last line first.
RECURSIVE processLines_lastFirst(_)
processLines_lastFirst(lines) ==
    IF lines = <<>> THEN [writes |-> <<>>, resolved |-> FALSE, parsed |-> <<>>]
    ELSE LET r == parseSSELine(Head(lines)) IN
         IF r = DoneSignal
         THEN [writes |-> <<>>, resolved |-> TRUE, parsed |-> <<Head(lines)>>]
         ELSE LET rest == processLines_lastFirst(Tail(lines)) IN
              [writes |-> rest.writes \o (IF r # JSnull THEN <<r.v>> ELSE <<>>),
               resolved |-> rest.resolved,
               parsed |-> <<Head(lines)>> \o rest.parsed]

\* The for loop of the data handler over the complete lines: the fragments
\* it writes, whether it called resolve(), and the lines it parsed.
RECURSIVE processLines(_)
processLines(lines) ==
    IF lines = <<>> THEN [writes |-> <<>>, resolved |-> FALSE, parsed |-> <<>>]
    ELSE LET r == parseSSELine(Head(lines)) IN
         IF r = DoneSignal
         THEN [writes |-> <<>>, resolved |-> TRUE, parsed |-> <<Head(lines)>>]
         ELSE LET rest == processLines(Tail(lines)) IN
              [writes |-> (IF r # JSnull THEN <<r.v>> ELSE <<>>) \o rest.writes,
               resolved |-> rest.resolved,
               parsed |-> <<Head(lines)>> \o rest.parsed]

\* A promise settles once: resolve and reject are no-ops on a settled one.
Pending == [state |-> "pending", reason |-> <<>>]
Fulfilled == [state |-> "fulfilled", reason |-> <<>>]
Rejected(message) == [state |-> "rejected", reason |-> message]
\* A promise that takes every outcome it is given.
settle_last(promise, outcome) == outcome

settle(promise, outcome) == IF promise.state = "pending" THEN outcome ELSE promise

\* A data handler that leaves the lines it has processed in the buffer.
dataHandler_keepsLines(c, chunk) ==
    LET text == c.buffer \o toString(chunk)
        segs == split(text)
        lines == SubSeq(segs, 1, Len(segs) - 1)
        run == processLines(lines)
    IN [c EXCEPT !.buffer = text,
                 !.received = c.received \o toString(chunk),
                 !.parsed = c.parsed \o run.parsed,
                 !.out = run.writes,
                 !.promise = IF run.resolved THEN settle(c.promise, Fulfilled)
                             ELSE c.promise]

\* response.data.on('data', ...) applied to the closure c of one call.
dataHandler(c, chunk) ==
    LET text == c.buffer \o toString(chunk)
        segs == split(text)
        lines == SubSeq(segs, 1, Len(segs) - 1)
        run == processLines(lines)
    IN [c EXCEPT !.buffer = segs[Len(segs)],
                 !.received = c.received \o toString(chunk),
                 !.parsed = c.parsed \o run.parsed,
                 !.out = run.writes,
                 !.promise = IF run.resolved THEN settle(c.promise, Fulfilled)
                             ELSE c.promise]

\* An end handler that resolves without looking at the buffer.
endHandler_noFlush(c) ==
    [c EXCEPT !.out = <<>>,
              !.promise = settle(c.promise, Fulfilled)]

\* response.data.on('end', ...)
endHandler(c) ==
    LET flush == Trim(c.buffer) # <<>>
        r == IF flush THEN parseSSELine(c.buffer) ELSE JSnull
    IN [c EXCEPT !.parsed = IF flush THEN c.parsed \o <<c.buffer>> ELSE c.parsed,
                 !.out = IF r # JSnull /\ r # DoneSignal THEN <<r.v>> ELSE <<>>,
                 !.promise = settle(c.promise, Fulfilled)]

\* An error handler that rejects with the error as it came.
errorHandler_rawMessage(c, message) ==
    [c EXCEPT !.out = <<>>,
              !.promise = settle(c.promise, Rejected(message))]

\* response.data.on('error', ...)
errorHandler(c, message) ==
    [c EXCEPT !.out = <<>>,
              !.promise = settle(c.promise, Rejected(<<"Stream interrupted: ">> \o message))]

(***************************************************************************)
(* The calls and the stream each streaming call listens to.                *)
(***************************************************************************)
CallIds == 1..MaxCalls

IdleCall ==
    [kind |-> "none",       \* "ask" (askPerplexity) or "stream" (askPerplexityStreaming)
     pc |-> "idle",         \* idle, posting, listening, finished, collected
     promise |-> Pending,   \* the promise the call returned to its caller
     returned |-> FALSE,    \* the caller's await has completed
     stream |-> "none",     \* response.data: none, open, ended, errored
     wire |-> <<>>,         \* bytes the server sent that have not arrived yet
     nlines |-> 0,          \* lines the server sends on this response (a call counts for one)
     error |-> <<>>,        \* message of the error the stream raised
     buffer |-> <<>>,       \* the closure's buffer
     out |-> <<>>,          \* fragments written by the handler that is running
     late |-> 0,            \* history: fragments written after the promise had settled
     received |-> <<>>,     \* history: the decoded chunks, concatenated
     parsed |-> <<>>]       \* history: the lines handed to parseSSELine

\* The SSE lines the server may send, as bytes.
StreamLines ==
    { <<DATA, Jpre, "a", Jpost>>,
      <<DATA, Jpre, ByteC3, ByteA9, Jpost>>,
      <<DATA, Jpre, "done", Jpost>>,
      <<DATA, DONE>>,
      <<DATA, JUNK>>,
      <<SP>> }

\* The response bodies of n lines: every line newline-terminated, or all
\* but the last.
RECURSIVE Terminated(_)
Terminated(n) ==
    IF n = 0 THEN {<<>>}
    ELSE {l \o <<NL>> \o t : l \in StreamLines, t \in Terminated(n - 1)}

Bodies(n) ==
    IF n = 0 THEN {<<>>}
    ELSE Terminated(n) \cup {t \o l : t \in Terminated(n - 1), l \in StreamLines}

LinesSent == LET Sum[i \in 0..MaxCalls] ==
                     IF i = 0 THEN 0 ELSE Sum[i - 1] + calls[i].nlines
             IN Sum[MaxCalls]

StreamErrors == {<<"socket hang up">>, <<"aborted">>}

\* process.env.PPLX_API_KEY and config.api.key: unset, empty, or a key.
ApiKeys == {JSundefined, JSstring(<<>>), JSstring(<<"pplx-key">>)}

Question == "q"
NoOptions == [model |-> JSundefined, searchMode |-> JSundefined]

NextCall == Cardinality({i \in CallIds : calls[i].kind # "none"}) + 1

Write(out, i, fragments) ==
    out \o [k \in 1..Len(fragments) |-> [call |-> i, text |-> fragments[k]]]

\* The handler has returned: its writes are on stdout.  The history counts
\* those made although the promise had settled before the handler ran.
Written(c, before) ==
    [c EXCEPT !.out = <<>>,
              !.late = IF before.state # "pending" THEN @ + Len(c.out) ELSE @]

\* The closure of a call whose stream has closed is unreachable.
Collect(c) ==
    IF c.stream \in {"none", "ended", "errored"}
    THEN [IdleCall EXCEPT !.kind = c.kind, !.pc = "collected", !.promise = c.promise,
                          !.returned = c.returned, !.stream = c.stream,
                          !.nlines = c.nlines]
    ELSE c

(***************************************************************************)
(* The start of askPerplexity and of askPerplexityStreaming, up to their   *)
(* await of axios.post (perplexity.ts 137-150 and 207-222).                *)
(***************************************************************************)
Invoke(i, kind, question, envKey, config, options) ==
    LET apiKey == resolveApiKey(envKey, config) IN
    IF missingKey(apiKey)
    THEN /\ calls' = [calls EXCEPT ![i] =
                [IdleCall EXCEPT !.kind = kind, !.pc = "finished", !.nlines = 1,
                                 !.promise = Rejected(MissingKeyError)]]
         /\ UNCHANGED requests
    ELSE /\ calls' = [calls EXCEPT ![i] =
                [IdleCall EXCEPT !.kind = kind, !.pc = "posting", !.nlines = 1]]
         /\ requests' = Append(requests,
                [call |-> i,
                 url |-> <<config.api.base_url, "/chat/completions">>,
                 payload |-> buildApiPayload(question, config, options, kind = "stream"),
                 authorization |-> <<"Bearer ">> \o apiKey.v,
                 responseType |-> IF kind = "stream" THEN "stream" ELSE "json"])

\* startInteractiveSession reads a question and calls ask (index.ts 106-135);
\* handleQuestion picks the transport (index.ts 69-86).
HandleQuestion(i) ==
    /\ sessionPc = "prompt"
    /\ i = NextCall
    /\ i <= MaxCalls
    /\ LinesSent < MaxLines
    /\ \E kind \in {"ask", "stream"}, envKey \in ApiKeys, cfgKey \in ApiKeys :
          Invoke(i, kind, Question, envKey,
                 [defaultConfig EXCEPT !.api.key = cfgKey], NoOptions)
    /\ sessionPc' = "awaiting"
    /\ UNCHANGED <<stdout, exitCode>>

\* axios.post resolves.  askPerplexity returns the answer; askPerplexityStreaming
\* creates its promise and attaches the three handlers (perplexity.ts 224-260).
PostResolves(i) ==
    /\ calls[i].pc = "posting"
    /\ IF calls[i].kind = "ask"
       THEN calls' = [calls EXCEPT ![i].pc = "finished", ![i].promise = Fulfilled]
       ELSE \E n \in 0..(MaxLines - LinesSent + 1) : \E body \in Bodies(n) :
               calls' = [calls EXCEPT ![i].pc = "listening", ![i].stream = "open",
                                      ![i].wire = body,
                                      ![i].nlines = IF n = 0 THEN 1 ELSE n]
    /\ UNCHANGED <<sessionPc, stdout, requests, exitCode>>

\* axios.post rejects (network failure, HTTP error status).
PostRejects(i) ==
    /\ calls[i].pc = "posting"
    /\ calls' = [calls EXCEPT ![i].pc = "finished",
                              ![i].promise = Rejected(<<"AxiosError">>)]
    /\ UNCHANGED <<sessionPc, stdout, requests, exitCode>>

\* The stream emits 'data' with the next k bytes.
OnData(i) ==
    /\ calls[i].pc = "listening"
    /\ calls[i].stream = "open"
    /\ \E k \in 1..Len(calls[i].wire) :
          LET c == dataHandler([calls[i] EXCEPT !.wire = SubSeq(@, k + 1, Len(@))],
                               SubSeq(calls[i].wire, 1, k))
          IN /\ stdout' = Write(stdout, i, c.out)
             /\ calls' = [calls EXCEPT ![i] = Written(c, calls[i].promise)]
    /\ UNCHANGED <<sessionPc, requests, exitCode>>

\* The stream emits 'end' once everything sent has arrived.
OnEnd(i) ==
    /\ calls[i].pc = "listening"
    /\ calls[i].stream = "open"
    /\ calls[i].wire = <<>>
    /\ LET c == endHandler([calls[i] EXCEPT !.stream = "ended"])
       IN /\ stdout' = Write(stdout, i, c.out)
          /\ calls' = [calls EXCEPT ![i] =
                          IF c.returned THEN Collect(c)
                          ELSE Written(c, calls[i].promise)]
    /\ UNCHANGED <<sessionPc, requests, exitCode>>

\* The stream emits 'error'; what had not arrived is lost.
OnError(i) ==
    /\ calls[i].pc = "listening"
    /\ calls[i].stream = "open"
    /\ \E m \in StreamErrors :
          LET c == errorHandler([calls[i] EXCEPT !.stream = "errored", !.wire = <<>>,
                                                 !.error = m], m)
          IN /\ stdout' = Write(stdout, i, c.out)
             /\ calls' = [calls EXCEPT ![i] =
                             IF c.returned THEN Collect(c)
                             ELSE Written(c, calls[i].promise)]
    /\ UNCHANGED <<sessionPc, requests, exitCode>>

\* The await of the call completes: handleQuestion prints or reports
\* (index.ts 79-92) and the session loop prompts again (index.ts 106).
Resume(i) ==
    /\ sessionPc = "awaiting"
    /\ i = NextCall - 1
    /\ calls[i].promise.state # "pending"
    /\ calls' = [calls EXCEPT ![i] = Collect([@ EXCEPT !.returned = TRUE])]
    /\ exitCode' = IF calls[i].promise.state = "rejected" THEN 1 ELSE exitCode
    /\ stdout' = IF calls[i].kind = "ask" /\ calls[i].promise.state = "fulfilled"
                 THEN Write(stdout, i, <<<<"answer">>>>)
                 ELSE stdout
    /\ sessionPc' = "prompt"
    /\ UNCHANGED requests

\* The user types exit, or the prompt throws (index.ts 110-112, 129-131).
Exit ==
    /\ sessionPc = "prompt"
    /\ sessionPc' = "exited"
    /\ UNCHANGED <<calls, stdout, requests, exitCode>>

(***************************************************************************)
(* parseSSELine on one line, and one data event that holds the line        *)
(* followed by a content line.                                             *)
(***************************************************************************)
ParseAlphabet ==
    {DATA, COLON, SP, DONE, Jpre, Jpost, "a", "done", JNumContent, JNoDelta, JUNK}

ParseInputs == UNION {[1..n -> ParseAlphabet] : n \in 0..MaxLineLen}

ProbeLine == <<DATA, Jpre, "a", Jpost>>

NoLine == <<"-">>
NoProbe == [state |-> "none", out |-> <<>>, parsed |-> <<>>]
NoArgs == [fn |-> "none"]
NotCalled == [fn |-> "none"]
NoInput == [question |-> "", envKey |-> JSundefined, config |-> defaultConfig,
            options |-> NoOptions]

ParseLine ==
    /\ line # NoLine
    /\ result = JSundefined
    /\ result' = parseSSELine(line)
    /\ UNCHANGED <<sessionVars, line, probe, pin, args, ret>>

FeedLine ==
    /\ result # JSundefined
    /\ probe = NoProbe
    /\ LET c == dataHandler([IdleCall EXCEPT !.kind = "stream", !.pc = "listening",
                                             !.stream = "open"],
                            line \o <<NL>> \o ProbeLine \o <<NL>>)
       IN probe' = [state |-> c.promise.state, out |-> c.out, parsed |-> c.parsed]
    /\ UNCHANGED <<sessionVars, line, result, pin, args, ret>>

(***************************************************************************)
(* askPerplexity and askPerplexityStreaming called on the same input.      *)
(***************************************************************************)
AskInputs ==
    [question : {"q1", "q2"},
     envKey : {JSundefined, JSstring(<<>>), JSstring(<<"pplx-env">>)},
     config : {[defaultConfig EXCEPT !.api.key = k, !.models.default = d,
                                     !.research.search_mode = m, !.agent = a] :
                  k \in {JSundefined, JSstring(<<>>), JSstring(<<"pplx-cfg">>)},
                  d \in {"sonar-pro", "my-model"},
                  m \in {"medium", "low"},
                  a \in {defaultConfig.agent,
                         [temperature |-> "0.7", max_tokens |-> "2048", top_p |-> "0.95"]}},
     options : [model : {JSundefined, JSstring(<<>>), JSstring(<<"sonar-reasoning">>),
                         JSstring(<<"invalid-model">>)},
                searchMode : {JSundefined, JSstring(<<"high">>), JSstring(<<"low">>)}]]

AskPerplexity ==
    /\ pin # NoInput
    /\ calls[1].kind = "none"
    /\ Invoke(1, "ask", pin.question, pin.envKey, pin.config, pin.options)
    /\ UNCHANGED <<sessionPc, stdout, exitCode, parseVars, pin, args, ret>>

AskPerplexityStreaming ==
    /\ pin # NoInput
    /\ calls[2].kind = "none"
    /\ Invoke(2, "stream", pin.question, pin.envKey, pin.config, pin.options)
    /\ UNCHANGED <<sessionPc, stdout, exitCode, parseVars, pin, args, ret>>

(***************************************************************************)
(* Specifications.                                                         *)
(***************************************************************************)
SessionInit ==
    /\ sessionPc = "prompt"
    /\ calls = [i \in CallIds |-> IdleCall]
    /\ stdout = <<>>
    /\ requests = <<>>
    /\ exitCode = 0

Init ==
    /\ SessionInit
    /\ line = NoLine /\ result = JSundefined /\ probe = NoProbe
    /\ pin = NoInput
    /\ args = NoArgs /\ ret = NotCalled

Next ==
    \/ \E i \in CallIds : HandleQuestion(i) /\ UNCHANGED <<parseVars, pin, args, ret>>
    \/ \E i \in CallIds : PostResolves(i) /\ UNCHANGED <<parseVars, pin, args, ret>>
    \/ \E i \in CallIds : PostRejects(i) /\ UNCHANGED <<parseVars, pin, args, ret>>
    \/ \E i \in CallIds : OnData(i) /\ UNCHANGED <<parseVars, pin, args, ret>>
    \/ \E i \in CallIds : OnEnd(i) /\ UNCHANGED <<parseVars, pin, args, ret>>
    \/ \E i \in CallIds : OnError(i) /\ UNCHANGED <<parseVars, pin, args, ret>>
    \/ \E i \in CallIds : Resume(i) /\ UNCHANGED <<parseVars, pin, args, ret>>
    \/ Exit /\ UNCHANGED <<parseVars, pin, args, ret>>

Spec == Init /\ [][Next]_vars

InitParse ==
    /\ SessionInit
    /\ line \in ParseInputs /\ result = JSundefined /\ probe = NoProbe
    /\ pin = NoInput
    /\ args = NoArgs /\ ret = NotCalled

NextParse == ParseLine \/ FeedLine

SpecParse == InitParse /\ [][NextParse]_vars

InitAsk ==
    /\ SessionInit
    /\ line = NoLine /\ result = JSundefined /\ probe = NoProbe
    /\ pin \in AskInputs
    /\ args = NoArgs /\ ret = NotCalled

NextAsk == AskPerplexity \/ AskPerplexityStreaming

SpecAsk == InitAsk /\ [][NextAsk]_vars

(***************************************************************************)
(* askPerplexity after the POST has resolved (perplexity.ts 152-157).      *)
(***************************************************************************)
\* Own enumerable keys in the order JSON.stringify visits them.
KeyOrder == <<"id", "choices", "message", "delta", "content", "finish_reason">>

\* The line break and indentation JSON.stringify(value, null, 2) puts
\* before an item at the given depth.
Indent(depth) == <<NL>> \o [k \in 1..(2 * depth) |-> SP]

\* JSON.stringify(value, null, 2): the text as a sequence of atoms, and
\* undefined for undefined.  Members whose value is undefined are left out,
\* array elements that are undefined are written as null.
RECURSIVE Render(_, _)
Render(v, depth) ==
    CASE v.t = "string" -> <<"\"">> \o v.v \o <<"\"">>
      [] v.t = "number" -> <<ToString(v.v[1])>>
      [] v.t = "null" -> <<"null">>
      [] v.t = "undefined" -> <<"null">>
      [] v.t = "array" ->
            IF v.v = <<>> THEN <<"[]">>
            ELSE LET item[k \in 0..Len(v.v)] ==
                        IF k = 0 THEN <<>>
                        ELSE item[k - 1] \o (IF k > 1 THEN <<",">> ELSE <<>>)
                                \o Indent(depth + 1) \o Render(v.v[k], depth + 1)
                 IN <<"[">> \o item[Len(v.v)] \o Indent(depth) \o <<"]">>
      [] v.t = "object" ->
            LET keys == SelectSeq(KeyOrder,
                            LAMBDA key : key \in DOMAIN v.v /\ v.v[key].t # "undefined")
                member[k \in 0..Len(keys)] ==
                    IF k = 0 THEN <<>>
                    ELSE member[k - 1] \o (IF k > 1 THEN <<",">> ELSE <<>>)
                            \o Indent(depth + 1) \o <<"\"", keys[k], "\": ">>
                            \o Render(v.v[keys[k]], depth + 1)
            IN IF keys = <<>> THEN <<"{}">>
               ELSE <<"{">> \o member[Len(keys)] \o Indent(depth) \o <<"}">>

JSONstringify(value) ==
    IF value.t = "undefined" THEN JSundefined ELSE JSstring(Render(value, 0))

\* Lines 152-157 without the trim().
answerOf_untrimmed(data) ==
    LET content == OptGet(OptGet(OptGet(OptGet(data, "choices"), "0"), "message"), "content")
    IN IF content.t = "string" THEN content ELSE JSONstringify(data)

\* Lines 152-157: the value askPerplexity returns for the response body.
answerOf(data) ==
    LET content == OptGet(OptGet(OptGet(OptGet(data, "choices"), "0"), "message"), "content")
    IN IF content.t = "string" THEN JSstring(Trim(content.v)) ELSE JSONstringify(data)

MaxContentLen == 3

ContentStrings == UNION {[1..n -> {SP, NL, "a", "done"}] : n \in 0..MaxContentLen}

MessageDoc(message) == JSobject([id |-> JSstring(<<"a">>),
                                 choices |-> JSarray(<<JSobject([message |-> message])>>)])

\* Response bodies: the documented shape with every content string, and the
\* shapes that lack a part of it or hold another type in its place.
AnswerBodies ==
    {MessageDoc(JSobject([content |-> JSstring(c)])) : c \in ContentStrings}
    \cup {MessageDoc(JSobject([content |-> c])) :
             c \in {JSnull, JSnumber(5), JSarray(<<>>),
                    JSobject([content |-> JSstring(<<"a">>)])}}
    \cup {MessageDoc(m) : m \in {JSnull, JSstring(<<"a">>), JSnumber(5),
                                JSobject([finish_reason |-> JSstring(<<"a">>)])}}
    \cup {JSobject([choices |-> c]) :
             c \in {JSnull, JSarray(<<>>), JSarray(<<JSnull>>),
                    JSarray(<<JSstring(<<"a">>)>>), JSstring(<<"a">>), JSstring(<<>>),
                    JSnumber(5), JSobject([message |-> JSstring(<<"a">>)]),
                    JSarray(<<JSobject([delta |-> JSobject([content |-> JSstring(<<"a">>)])])>>)}}
    \cup {JSnull, JSstring(<<"a">>), JSstring(<<>>), JSnumber(5),
          JSarray(<<>>), JSobject([id |-> JSstring(<<"a">>)])}

\* await axios.post(...) has resolved with the body; askPerplexity returns.
AskReturns ==
    /\ args.fn = "askPerplexity"
    /\ ret = NotCalled
    /\ ret' = [fn |-> "askPerplexity", threw |-> FALSE, value |-> answerOf(args.data)]
    /\ UNCHANGED <<sessionVars, parseVars, pin, args>>

InitAnswer ==
    /\ SessionInit
    /\ line = NoLine /\ result = JSundefined /\ probe = NoProbe
    /\ pin = NoInput
    /\ args \in {[fn |-> "askPerplexity", data |-> d] : d \in AnswerBodies}
    /\ ret = NotCalled

NextAnswer == AskReturns

SpecAnswer == InitAnswer /\ [][NextAnswer]_vars


(***************************************************************************)
(* deepMerge (config.ts 196-212).  An object is a function from its own    *)
(* keys, an array a sequence; an array that was given a named property     *)
(* carries it in a third field, props.                                     *)
(***************************************************************************)
\* The property names that are array indices, in order.
IndexKeys == <<"0", "1", "2">>

IsIndex(key) == \E i \in 1..Len(IndexKeys) : IndexKeys[i] = key

KeyIndex(key) == CHOOSE i \in 1..Len(IndexKeys) : IndexKeys[i] = key

\* Named property keys, in the order Object.entries lists them.
NamedKeys ==
    <<"x", "y", "api", "models", "agent", "research", "output", "key", "base_url",
      "timeout", "default", "temperature", "max_tokens", "top_p", "search_mode",
      "format", "stream">>

EmptyObject == JSobject(<<>>)

IsObjectLike(v) == v.t \in {"object", "array"}

\* value[key] for an own property, undefined otherwise.
Member(v, key) ==
    CASE v.t = "object" -> IF key \in DOMAIN v.v THEN v.v[key] ELSE JSundefined
      [] v.t = "array" ->
            IF IsIndex(key)
            THEN IF KeyIndex(key) <= Len(v.v) THEN v.v[KeyIndex(key)] ELSE JSundefined
            ELSE IF "props" \in DOMAIN v /\ key \in DOMAIN v.props
                 THEN v.props[key] ELSE JSundefined
      [] v.t = "string" ->
            IF IsIndex(key) /\ KeyIndex(key) <= Len(v.v)
            THEN JSstring(<<v.v[KeyIndex(key)]>>) ELSE JSundefined
      [] OTHER -> JSundefined

\* Object.entries(value): the own enumerable properties as <<key, value>>.
Entries(v) ==
    CASE v.t = "array" -> [i \in 1..Len(v.v) |-> <<IndexKeys[i], v.v[i]>>]
      [] v.t = "object" ->
            LET keys == SelectSeq(IndexKeys \o NamedKeys, LAMBDA key : key \in DOMAIN v.v)
            IN [i \in 1..Len(keys) |-> <<keys[i], v.v[keys[i]]>>]
      [] OTHER -> <<>>

\* Array.isArray(base) ? [...base] : { ...base }
spread(base) ==
    CASE base.t = "array" -> JSarray(base.v)
      [] base.t = "object" -> base
      [] base.t = "string" ->
            JSobject([key \in {IndexKeys[i] : i \in 1..Len(base.v)} |->
                         JSstring(<<base.v[KeyIndex(key)]>>)])
      [] OTHER -> EmptyObject

\* result[key] = value
Assign(r, key, value) ==
    CASE r.t = "object" ->
            JSobject([k \in DOMAIN r.v \cup {key} |-> IF k = key THEN value ELSE r.v[k]])
      [] r.t = "array" /\ IsIndex(key) ->
            [r EXCEPT !.v = [i \in 1..(IF KeyIndex(key) > Len(r.v) THEN KeyIndex(key)
                                       ELSE Len(r.v)) |->
                                IF i = KeyIndex(key) THEN value
                                ELSE IF i <= Len(r.v) THEN r.v[i] ELSE JSundefined]]
      [] r.t = "array" /\ ~IsIndex(key) ->
            LET props == IF "props" \in DOMAIN r THEN r.props ELSE <<>> IN
            [t |-> "array", v |-> r.v,
             props |-> [k \in DOMAIN props \cup {key} |->
                           IF k = key THEN value ELSE props[k]]]

RECURSIVE deepMerge(_, _)
RECURSIVE mergeEntries(_, _)

\* A loop that lets an undefined value of the override erase the base's.
RECURSIVE mergeEntries_eraseUndefined(_, _)
mergeEntries_eraseUndefined(r, entries) ==
    IF entries = <<>> THEN r
    ELSE LET key == Head(entries)[1]
             value == Head(entries)[2]
         IN mergeEntries_eraseUndefined(
               CASE value.t = "array" -> Assign(r, key, JSarray(value.v))
                 [] value.t = "object" ->
                       Assign(r, key, deepMerge(Nullish(Member(r, key), EmptyObject), value))
                 [] OTHER -> Assign(r, key, value),
               Tail(entries))

\* The for loop over Object.entries(override), lines 199-210.
mergeEntries(r, entries) ==
    IF entries = <<>> THEN r
    ELSE LET key == Head(entries)[1]
             value == Head(entries)[2]
         IN mergeEntries(
               CASE value.t = "undefined" -> r
                 [] value.t = "array" -> Assign(r, key, JSarray(value.v))
                 [] value.t = "object" ->
                       Assign(r, key, deepMerge(Nullish(Member(r, key), EmptyObject), value))
                 [] OTHER -> Assign(r, key, value),
               Tail(entries))

\* A merge that lays the arrays of the override after those of the base.
RECURSIVE deepMerge_concatArrays(_, _)
deepMerge_concatArrays(base, override) ==
    IF ~IsObjectLike(override) THEN base
    ELSE LET r == spread(base)
             keys == {e[1] : e \in {Entries(override)[i] : i \in 1..Len(Entries(override))}}
             one(key) ==
                LET value == Member(override, key) IN
                CASE value.t = "undefined" -> Member(r, key)
                  [] value.t = "array" ->
                        IF Member(r, key).t = "array"
                        THEN JSarray(Member(r, key).v \o value.v) ELSE value
                  [] value.t = "object" ->
                        deepMerge_concatArrays(Nullish(Member(r, key), EmptyObject), value)
                  [] OTHER -> value
         IN IF r.t = "object"
            THEN JSobject([key \in DOMAIN r.v \cup {k \in keys : Member(override, k).t # "undefined"}
                              |-> IF key \in keys THEN one(key) ELSE r.v[key]])
            ELSE r

deepMerge(base, override) ==
    IF ~IsObjectLike(override) THEN base
    ELSE mergeEntries(spread(base), Entries(override))

\* The values deepMerge is called on: scalars, arrays, and objects over two
\* keys nested two deep.
MergeLeaves ==
    {JSundefined, JSnull, JSnumber(5), JSstring(<<"a">>), JSarray(<<>>),
     JSarray(<<JSnumber(5)>>)}

ObjectsOver(keys, values) ==
    UNION {{JSobject(f) : f \in [d -> values]} : d \in SUBSET keys}

MergeNested == ObjectsOver({"x"}, MergeLeaves \cup {JSobject([x |-> JSnumber(5)])})

MergeValues == MergeLeaves \cup MergeNested

MergeObjects == ObjectsOver({"x", "y"}, MergeValues)

MergeInputs ==
    (MergeObjects \cup MergeLeaves \cup {JSarray(<<JSundefined, JSobject([x |-> JSnull])>>)})
       \ {JSundefined}

DeepMerge ==
    /\ args.fn = "deepMerge"
    /\ ret = NotCalled
    /\ ret' = [fn |-> "deepMerge", threw |-> FALSE,
               value |-> deepMerge(args.base, args.override)]
    /\ UNCHANGED <<sessionVars, parseVars, pin, args>>

InitMerge ==
    /\ SessionInit
    /\ line = NoLine /\ result = JSundefined /\ probe = NoProbe
    /\ pin = NoInput
    /\ args \in {[fn |-> "deepMerge", base |-> b, override |-> o] :
                    b \in MergeInputs, o \in MergeInputs}
    /\ ret = NotCalled

NextMerge == DeepMerge

SpecMerge == InitMerge /\ [][NextMerge]_vars


(***************************************************************************)
(* loadConfig (config.ts 137-292): the settings file, the environment and  *)
(* the defaults.  A number is carried as its decimal literal.              *)
(***************************************************************************)
JSboolean(b) == [t |-> "boolean", v |-> <<b>>]

\* defaultConfig as the JavaScript object deepMerge receives.
defaultConfigValue ==
    JSobject(
       [api |-> JSobject([key |-> defaultConfig.api.key,
                          base_url |-> JSstring(<<defaultConfig.api.base_url>>),
                          timeout |-> JSnumber(defaultConfig.api.timeout)]),
        models |-> JSobject([default |-> JSstring(<<defaultConfig.models.default>>)]),
        agent |-> JSobject([temperature |-> JSnumber(defaultConfig.agent.temperature),
                            max_tokens |-> JSnumber(defaultConfig.agent.max_tokens),
                            top_p |-> JSnumber(defaultConfig.agent.top_p)]),
        research |-> JSobject([search_mode |-> JSstring(<<defaultConfig.research.search_mode>>)]),
        output |-> JSobject([format |-> JSstring(<<defaultConfig.output.format>>),
                             stream |-> JSboolean(defaultConfig.output.stream)])])

\* The environment variables of envMap the model sets, with the section and
\* the kind of their leaf.
envMap ==
    <<[key |-> "timeout", envKey |-> "PPLX_API_TIMEOUT", section |-> "api", kind |-> "number"],
      [key |-> "default", envKey |-> "PPLX_MODEL_DEFAULT", section |-> "models", kind |-> "string"],
      [key |-> "temperature", envKey |-> "PPLX_AGENT_TEMPERATURE", section |-> "agent",
       kind |-> "number"],
      [key |-> "search_mode", envKey |-> "PPLX_SEARCH_MODE", section |-> "research",
       kind |-> "searchMode"],
      [key |-> "format", envKey |-> "PPLX_OUTPUT_FORMAT", section |-> "output",
       kind |-> "outputFormat"],
      [key |-> "stream", envKey |-> "PPLX_OUTPUT_STREAM", section |-> "output",
       kind |-> "boolean"]>>

\* The decimal literals Number() and YAML read as numbers.
NumberLiterals == {"0", "1", "5", "42", "5000", "60000", "4096", "0.3", "0.9"}

\* Number(value): surrounding whitespace is dropped, the empty string is 0,
\* anything that is not a numeric literal is NaN.
Number(s) ==
    LET t == Trim(s) IN
    IF t = <<>> THEN JSnumber("0")
    ELSE IF Len(t) = 1 /\ t[1] \in NumberLiterals THEN JSnumber(t[1])
    ELSE IF t = <<"Infinity">> THEN JSnumber("Infinity")
    ELSE JSnumber("NaN")

isFinite(n) == n.t = "number" /\ n.v[1] \notin {"NaN", "Infinity"}

parseBoolean(value) ==
    IF value.t = "undefined" THEN JSundefined
    ELSE JSboolean(value.v = <<"true">> \/ value.v = <<"1">>)

parseNumber(value) ==
    IF value.t = "undefined" THEN JSundefined
    ELSE IF isFinite(Number(value.v)) THEN Number(value.v) ELSE JSundefined

parseSearchMode(value) ==
    IF Falsy(value) THEN JSundefined
    ELSE IF value.v \in {<<"low">>, <<"medium">>, <<"high">>} THEN value
    ELSE JSundefined

parseOutputFormat(value) ==
    IF Falsy(value) THEN JSundefined
    ELSE IF value.v \in {<<"markdown">>, <<"json">>, <<"plain">>} THEN value
    ELSE JSundefined

\* A line of .pplxrc: "name:", "name: text", "  name: text", or a line with
\* two mapping indicators ("api: key: bad"), which YAML rejects.
HeaderLine(name) == [kind |-> "header", name |-> name, text |-> <<>>]
InlineLine(name, text) == [kind |-> "inline", name |-> name, text |-> text]
LeafLine(name, text) == [kind |-> "leaf", name |-> name, text |-> text]
BadLine == [kind |-> "bad", name |-> "", text |-> <<>>]

\* YAML's core schema on a plain scalar.
YAMLplain(text) ==
    IF Len(text) = 1 /\ text[1] \in NumberLiterals THEN JSnumber(text[1])
    ELSE IF text \in {<<>>, <<"~">>, <<"null">>} THEN JSnull
    ELSE IF text \in {<<"true">>, <<"false">>} THEN JSboolean(text = <<"true">>)
    ELSE IF text = <<"{}">> THEN EmptyObject
    ELSE JSstring(text)

\* The scalar of a line: the text between double quotes is a string, any
\* other text is plain and read without the whitespace around it.
YAMLscalar(text) ==
    IF Len(text) >= 2 /\ Head(text) = "\"" /\ text[Len(text)] = "\""
    THEN JSstring(SubSeq(text, 2, Len(text) - 1))
    ELSE YAMLplain(Trim(text))

RECURSIVE YAMLmapping(_, _, _)
YAMLmapping(lines, doc, open) ==
    IF lines = <<>> THEN doc
    ELSE LET l == Head(lines) IN
         CASE l.kind = "bad" -> JSthrow("Nested mappings are not allowed in compact mappings")
           [] l.kind = "header" ->
                 YAMLmapping(Tail(lines), Assign(doc, l.name, JSnull), l.name)
           [] l.kind = "inline" ->
                 YAMLmapping(Tail(lines), Assign(doc, l.name, YAMLscalar(l.text)), "")
           [] l.kind = "leaf" ->
                 YAMLmapping(Tail(lines),
                             Assign(doc, open,
                                    Assign(Nullish(Member(doc, open), EmptyObject),
                                           l.name, YAMLscalar(l.text))),
                             open)

\* YAML.parse(raw): null for an empty document.
YAMLparse(raw) == IF raw = <<>> THEN JSnull ELSE YAMLmapping(raw, EmptyObject, "")

NoFile == [exists |-> FALSE, raw |-> <<>>]

FileWith(raw) == [exists |-> TRUE, raw |-> raw]

\* loadFileConfig: the overlay, and whether the warning was written.
loadFileConfig(file) ==
    IF ~file.exists THEN [value |-> EmptyObject, warned |-> FALSE]
    ELSE IF YAMLparse(file.raw).t = "throw" THEN [value |-> EmptyObject, warned |-> TRUE]
    ELSE [value |-> Nullish(YAMLparse(file.raw), EmptyObject), warned |-> FALSE]

\* value.key: a TypeError on null and undefined.
Read(v, key) ==
    IF v.t \in {"null", "undefined", "throw"}
    THEN JSthrow("Cannot read properties of null")
    ELSE Member(v, key)

\* The right-hand side of one case of the switch, lines 233-282.
overrideValue(entry, value, config) ==
    LET parsed == CASE entry.kind = "string" -> value
                    [] entry.kind = "number" -> parseNumber(value)
                    [] entry.kind = "searchMode" -> parseSearchMode(value)
                    [] entry.kind = "outputFormat" -> parseOutputFormat(value)
                    [] entry.kind = "boolean" -> parseBoolean(value)
    IN IF parsed.t \notin {"null", "undefined"} THEN parsed
       ELSE Read(Read(config, entry.section), entry.key)

ConfigSections == {"api", "models", "agent", "research", "output"}

\* applyEnvOverrides(config) under the environment env.
applyEnvOverrides(config, env) ==
    LET set == {i \in 1..Len(envMap) : env[envMap[i].envKey].t # "undefined"}
        valueOf(i) == overrideValue(envMap[i], env[envMap[i].envKey], config)
        envOverrides ==
           JSobject([s \in ConfigSections |->
                       JSobject([k \in {envMap[i].key : i \in {j \in set : envMap[j].section = s}}
                                   |-> valueOf(CHOOSE i \in set :
                                                  envMap[i].section = s /\ envMap[i].key = k)])])
    IN IF \E i \in set : valueOf(i).t = "throw"
       THEN JSthrow("Cannot read properties of null")
       ELSE deepMerge(config, envOverrides)

loadConfig(file, env) ==
    LET fileConfig == loadFileConfig(file)
        merged == deepMerge(defaultConfigValue, fileConfig.value)
    IN [value |-> applyEnvOverrides(merged, env), warned |-> fileConfig.warned]

\* The settings files: at most MaxFileLines lines, an indented line only
\* under a section, no key twice.
MaxFileLines == 2

FileLines ==
    {HeaderLine("api"), HeaderLine("agent"), HeaderLine("research"),
     InlineLine("api", <<"5">>),
     LeafLine("timeout", <<"5000">>), LeafLine("timeout", <<"~">>),
     LeafLine("temperature", <<"1">>), LeafLine("search_mode", <<"high">>),
     BadLine}

WellFormed(raw) ==
    /\ \A i \in 1..Len(raw) :
          raw[i].kind = "leaf" => i > 1 /\ raw[i - 1].kind \in {"header", "leaf"}
    /\ \A i, j \in 1..Len(raw) :
          (i < j /\ raw[i].kind # "bad" /\ raw[i].name = raw[j].name)
             => raw[i].kind = "leaf" /\ raw[j].kind = "leaf"
                   /\ \E h \in (i + 1)..(j - 1) : raw[h].kind = "header"

Files ==
    {NoFile} \cup
    {FileWith(raw) : raw \in {r \in UNION {[1..n -> FileLines] : n \in 0..MaxFileLines} :
                                 WellFormed(r)}}

Environments ==
    {[PPLX_API_TIMEOUT |-> a, PPLX_MODEL_DEFAULT |-> b, PPLX_AGENT_TEMPERATURE |-> c,
      PPLX_SEARCH_MODE |-> d, PPLX_OUTPUT_FORMAT |-> e, PPLX_OUTPUT_STREAM |-> f] :
        a \in {JSundefined, JSstring(<<"5000">>), JSstring(<<SP, "42", SP>>), JSstring(<<>>),
               JSstring(<<"abc">>)},
        b \in {JSundefined, JSstring(<<"sonar">>)},
        c \in {JSundefined, JSstring(<<"1">>), JSstring(<<"Infinity">>)},
        d \in {JSundefined, JSstring(<<"high">>), JSstring(<<"bogus">>)},
        e \in {JSundefined, JSstring(<<"json">>), JSstring(<<"xml">>)},
        f \in {JSundefined, JSstring(<<"true">>), JSstring(<<"yes">>)}}

LoadConfig ==
    /\ args.fn = "loadConfig"
    /\ ret = NotCalled
    /\ LET r == loadConfig(args.file, args.env) IN
       ret' = [fn |-> "loadConfig", threw |-> r.value.t = "throw", value |-> r.value,
               warned |-> r.warned]
    /\ UNCHANGED <<sessionVars, parseVars, pin, args>>

InitConfig ==
    /\ SessionInit
    /\ line = NoLine /\ result = JSundefined /\ probe = NoProbe
    /\ pin = NoInput
    /\ args \in {[fn |-> "loadConfig", file |-> f, env |-> e] : f \in Files, e \in Environments}
    /\ ret = NotCalled

NextConfig == LoadConfig

SpecConfig == InitConfig /\ [][NextConfig]_vars


(***************************************************************************)
(* validateApiKeyFormat (config.ts 9-45).  A key is a sequence of runs of  *)
(* characters; Width gives the number of characters of each run.           *)
(***************************************************************************)
API_KEY_PREFIX == "pplx-"
API_KEY_MIN_LENGTH == 37
API_KEY_MAX_LENGTH == 128

\* Runs of key characters: the prefix, 'a' repeated 1, 31 and 91 times, a
\* character outside [a-zA-Z0-9_-], and a space.
KeyRuns == {API_KEY_PREFIX, "a", "a31", "a91", "!", SP}

Width == [r \in KeyRuns |->
            CASE r = API_KEY_PREFIX -> 5 [] r = "a31" -> 31 [] r = "a91" -> 91 [] OTHER -> 1]

\* The runs made of characters of [a-zA-Z0-9_-] only.
KeyCharRuns == {API_KEY_PREFIX, "a", "a31", "a91"}

RECURSIVE length(_)
length(s) == IF s = <<>> THEN 0 ELSE Width[Head(s)] + length(Tail(s))

startsWith(s, prefix) == s # <<>> /\ Head(s) = prefix

\* /^[a-zA-Z0-9_-]+$/.test(keyPart)
keyPartMatches(keyPart) ==
    keyPart # <<>> /\ \A i \in 1..Len(keyPart) : keyPart[i] \in KeyCharRuns

validateApiKeyFormat(key) ==
    IF Falsy(key) \/ key.t # "string"
    THEN [valid |-> FALSE, message |-> "API key is required"]
    ELSE LET trimmedKey == Trim(key.v) IN
         IF ~startsWith(trimmedKey, API_KEY_PREFIX)
         THEN [valid |-> FALSE, message |-> "API key must start with \"pplx-\""]
         ELSE IF length(trimmedKey) < API_KEY_MIN_LENGTH
         THEN [valid |-> FALSE, message |-> "API key is too short"]
         ELSE IF length(trimmedKey) > API_KEY_MAX_LENGTH
         THEN [valid |-> FALSE, message |-> "API key is too long"]
         ELSE IF ~keyPartMatches(Tail(trimmedKey))
         THEN [valid |-> FALSE, message |-> "API key contains invalid characters"]
         ELSE [valid |-> TRUE, message |-> ""]

MaxKeyRuns == 6

KeyInputs ==
    {JSundefined, JSnull, JSnumber("5")} \cup
    {JSstring(s) : s \in UNION {[1..n -> KeyRuns] : n \in 0..MaxKeyRuns}}

ValidateApiKeyFormat ==
    /\ args.fn = "validateApiKeyFormat"
    /\ ret = NotCalled
    /\ ret' = [fn |-> "validateApiKeyFormat", threw |-> FALSE,
               value |-> validateApiKeyFormat(args.key)]
    /\ UNCHANGED <<sessionVars, parseVars, pin, args>>

InitKey ==
    /\ SessionInit
    /\ line = NoLine /\ result = JSundefined /\ probe = NoProbe
    /\ pin = NoInput
    /\ args \in {[fn |-> "validateApiKeyFormat", key |-> k] : k \in KeyInputs}
    /\ ret = NotCalled

NextKey == ValidateApiKeyFormat

SpecKey == InitKey /\ [][NextKey]_vars


(***************************************************************************)
(* writeSecureFile and saveConfig (config.ts 47-53, 298-301).  A file mode *)
(* is the set of its permission bits.                                      *)
(***************************************************************************)
PermissionBits == {"ur", "uw", "ux", "gr", "gw", "gx", "or", "ow", "ox"}

\* 0o600
Mode0600 == {"ur", "uw"}

\* The umasks a process runs under: 000, 002, 022, 077.
Umasks ==
    {{}, {"ow"}, {"gw", "ow"}, {"gr", "gw", "gx", "or", "ow", "ox"}}

NoTarget == [exists |-> FALSE, mode |-> {}, content |-> <<>>]

\* fs.writeFileSync(filePath, content, { mode }): open(2) with O_WRONLY |
\* O_CREAT | O_TRUNC.  The mode, less the umask, is given to a file the call
\* creates; an existing file is truncated and keeps its mode, and cannot be
\* opened without write permission unless the process is privileged.
writeFileSync(target, content, mode, umask, privileged) ==
    IF ~target.exists
    THEN [threw |-> FALSE,
          file |-> [exists |-> TRUE, mode |-> mode \ umask, content |-> content]]
    ELSE IF "uw" \notin target.mode /\ ~privileged
    THEN [threw |-> TRUE, file |-> target]
    ELSE [threw |-> FALSE, file |-> [target EXCEPT !.content = content]]

writeSecureFile(target, content, umask, privileged) ==
    writeFileSync(target, content, Mode0600, umask, privileged)

\* Every string written as it is.
scalarText_plain(v) ==
    CASE v.t = "boolean" -> IF v.v[1] THEN <<"true">> ELSE <<"false">>
      [] v.t = "null" -> <<"null">>
      [] v.t = "number" -> <<v.v[1]>>
      [] v.t = "string" -> v.v

\* The text YAML.stringify gives a scalar: a string is put between double
\* quotes when its plain text would be read as something else.
scalarText(v) ==
    CASE v.t = "boolean" -> IF v.v[1] THEN <<"true">> ELSE <<"false">>
      [] v.t = "null" -> <<"null">>
      [] v.t = "number" -> <<v.v[1]>>
      [] v.t = "string" ->
            IF Trim(v.v) = v.v /\ YAMLplain(v.v) = v THEN v.v
            ELSE <<"\"">> \o v.v \o <<"\"">>

\* YAML.stringify(config): a line for each section, then one for each of its
\* defined leaves; a section that is a scalar, or has no defined leaf, is
\* written on its own line, and an undefined one is left out.
RECURSIVE YAMLstringify(_)
YAMLstringify(entries) ==
    IF entries = <<>> THEN <<>>
    ELSE LET name == Head(entries)[1]
             section == Head(entries)[2]
             leaves == SelectSeq(Entries(section), LAMBDA e : e[2].t # "undefined")
         IN (CASE section.t = "undefined" -> <<>>
               [] section.t # "object" -> <<InlineLine(name, scalarText(section))>>
               [] section.t = "object" /\ leaves = <<>> -> <<InlineLine(name, <<"{}">>)>>
               [] OTHER ->
                     <<HeaderLine(name)>>
                        \o [i \in 1..Len(leaves) |->
                               LeafLine(leaves[i][1], scalarText(leaves[i][2]))])
            \o YAMLstringify(Tail(entries))

saveConfig(config, target, umask, privileged) ==
    writeSecureFile(target, YAMLstringify(Entries(config)), umask, privileged)

Targets ==
    {NoTarget} \cup
    {[exists |-> TRUE, mode |-> m, content |-> <<HeaderLine("api")>>] :
        m \in SUBSET PermissionBits}

SavedConfigs ==
    {defaultConfigValue,
     Assign(defaultConfigValue, "api",
            Assign(Member(defaultConfigValue, "api"), "key", JSstring(<<API_KEY_PREFIX, "a31", "a">>)))}

SaveConfig ==
    /\ args.fn = "saveConfig"
    /\ ret = NotCalled
    /\ LET r == saveConfig(args.config, args.target, args.umask, args.privileged) IN
       ret' = [fn |-> "saveConfig", threw |-> r.threw, file |-> r.file]
    /\ UNCHANGED <<sessionVars, parseVars, pin, args>>

WriteSecureFile ==
    /\ args.fn = "writeSecureFile"
    /\ ret = NotCalled
    /\ LET r == writeSecureFile(args.target, args.content, args.umask, args.privileged) IN
       ret' = [fn |-> "writeSecureFile", threw |-> r.threw, file |-> r.file]
    /\ UNCHANGED <<sessionVars, parseVars, pin, args>>

InitSave ==
    /\ SessionInit
    /\ line = NoLine /\ result = JSundefined /\ probe = NoProbe
    /\ pin = NoInput
    /\ args \in
          {[fn |-> "saveConfig", config |-> c, target |-> t, umask |-> u, privileged |-> p] :
              c \in SavedConfigs, t \in Targets, u \in Umasks, p \in BOOLEAN}
          \cup
          {[fn |-> "writeSecureFile", content |-> c, target |-> t, umask |-> u,
            privileged |-> p] :
              c \in {<<>>, <<InlineLine("PPLX_API_KEY", <<"k">>)>>}, t \in Targets, u \in Umasks,
              p \in BOOLEAN}
    /\ ret = NotCalled

NextSave == SaveConfig \/ WriteSecureFile

SpecSave == InitSave /\ [][NextSave]_vars


(***************************************************************************)
(* validateModelName called on its own (config.ts 303-312).                *)
(***************************************************************************)
\* Requested names: none, the empty string, every available model, names
\* that are not available, and an available name followed by a space.
RequestedModels ==
    {JSundefined, JSstring(<<>>)}
       \cup {JSstring(<<m>>) : m \in AVAILABLE_MODELS \cup {"gpt-4", "Sonar", "sonar-small"}}
       \cup {JSstring(<<"sonar", SP>>)}

DefaultModels == AVAILABLE_MODELS \cup {"custom-model"}

ValidateModelName ==
    /\ args.fn = "validateModelName"
    /\ ret = NotCalled
    /\ ret' = [fn |-> "validateModelName", threw |-> FALSE,
               value |-> validateModelName(args.model, args.config)]
    /\ UNCHANGED <<sessionVars, parseVars, pin, args>>

InitModel ==
    /\ SessionInit
    /\ line = NoLine /\ result = JSundefined /\ probe = NoProbe
    /\ pin = NoInput
    /\ args \in {[fn |-> "validateModelName", model |-> m,
                  config |-> [defaultConfig EXCEPT !.models.default = d]] :
                    m \in RequestedModels, d \in DefaultModels}
    /\ ret = NotCalled

NextModel == ValidateModelName

SpecModel == InitModel /\ [][NextModel]_vars


(***************************************************************************)
(* formatError (perplexity.ts 275-303).  An Error instance is the value    *)
(* [t |-> "error"] holding its message; an object that refers to itself    *)
(* is [t |-> "circular"].                                                  *)
(***************************************************************************)
JSerror(message) == [t |-> "error", v |-> message]

Circular == [t |-> "circular", v |-> <<>>]

\* axios.isAxiosError(payload): an object whose isAxiosError is true.
isAxiosError(payload) ==
    payload.t = "object" /\ "isAxiosError" \in DOMAIN payload.v
       /\ payload.v.isAxiosError = JSboolean(TRUE)

\* `${value}` in a template literal.
templateString(v) ==
    CASE v.t = "string" -> v.v
      [] v.t = "number" -> <<v.v[1]>>
      [] v.t = "undefined" -> <<"undefined">>
      [] v.t = "null" -> <<"null">>
      [] OTHER -> <<"[object Object]">>

\* Own enumerable keys of an error value in the order they were written.
ErrorKeyOrder == <<"isAxiosError", "code", "response", "status", "data", "error", "message", "custom">>

\* JSON.stringify(value) without indentation: undefined for undefined, a
\* TypeError for a value that refers to itself.
RECURSIVE stringify(_)
stringify(v) ==
    CASE v.t = "string" -> <<"\"">> \o v.v \o <<"\"">>
      [] v.t = "number" -> <<v.v[1]>>
      [] v.t = "boolean" -> <<IF v.v[1] THEN "true" ELSE "false">>
      [] v.t = "null" -> <<"null">>
      [] v.t = "error" -> <<"{}">>
      [] v.t = "object" ->
            LET keys == SelectSeq(ErrorKeyOrder,
                            LAMBDA key : key \in DOMAIN v.v /\ v.v[key].t # "undefined")
                member[k \in 0..Len(keys)] ==
                    IF k = 0 THEN <<>>
                    ELSE member[k - 1] \o (IF k > 1 THEN <<",">> ELSE <<>>)
                            \o <<"\"", keys[k], "\":">> \o stringify(v.v[keys[k]])
            IN <<"{">> \o member[Len(keys)] \o <<"}">>

JSONstringifyCompact(value) ==
    CASE value.t = "undefined" -> JSundefined
      [] value.t = "circular" -> JSthrow("Converting circular structure to JSON")
      [] OTHER -> JSstring(stringify(value))

\* A formatError that looks at the transport code before the status.
formatError_codeFirst(error) ==
    IF isAxiosError(error) /\ ~Falsy(Member(error, "code"))
    THEN JSstring(<<"Network error (">> \o templateString(Member(error, "code"))
                     \o <<"). Please check your connection and try again.">>)
    ELSE JSstring(<<"API error: ">> \o templateString(Member(error, "message")))

formatError(error) ==
    IF isAxiosError(error)
    THEN LET status == OptGet(OptGet(error, "response"), "status")
             detail == Nullish(OptGet(OptGet(OptGet(error, "response"), "data"), "error"),
                               Member(error, "message"))
             code == Member(error, "code")
         IN IF Falsy(status) /\ ~Falsy(code)
            THEN JSstring(<<"Network error (">> \o templateString(code)
                             \o <<"). Please check your connection and try again.">>)
            ELSE IF status \in {JSnumber("401"), JSnumber("403")}
            THEN JSstring(<<"API key invalid or unauthorized. Run \"enigma config\" to update your key.">>)
            ELSE IF status = JSnumber("404")
            THEN JSstring(<<"Endpoint not found. Please try again in a moment.">>)
            ELSE IF status = JSnumber("429")
            THEN JSstring(<<"Rate limit exceeded. Please wait a moment and try again.">>)
            ELSE IF status \in {JSnumber("500"), JSnumber("502"), JSnumber("503")}
            THEN JSstring(<<"Server error (">> \o templateString(status)
                             \o <<"). The Perplexity API may be temporarily unavailable. Please try again later.">>)
            ELSE IF ~Falsy(status)
            THEN JSstring(<<"API error (">> \o templateString(status) \o <<"): ">>
                             \o templateString(detail))
            ELSE JSstring(<<"API error: ">> \o templateString(detail))
    ELSE IF error.t = "error" THEN JSstring(error.v)
    ELSE IF error.t = "string" THEN error
    ELSE JSONstringifyCompact(error)

\* The errors axios rejects with: with or without a response, a transport
\* code and an error member in the response body.
Statuses == {"400", "401", "403", "404", "429", "500", "502", "503", "504"}

AxiosErrors ==
    {JSobject([isAxiosError |-> JSboolean(TRUE), message |-> JSstring(m), code |-> c, response |-> r]) :
        m \in {<<"timeout">>, <<"Request failed">>},
        c \in {JSundefined, JSstring(<<"ETIMEDOUT">>), JSstring(<<"ERR_BAD_REQUEST">>)},
        r \in {JSundefined} \cup
              {JSobject([status |-> JSnumber(s), data |-> d]) :
                  s \in Statuses,
                  d \in {JSundefined, JSnull, JSstring(<<"Bad Gateway">>),
                         JSobject([error |-> JSstring(<<"Bad Request">>)]),
                         JSobject([error |-> JSnull]),
                         JSobject([error |-> JSobject([message |-> JSstring(<<"Bad Request">>)])])}}}

\* Values that are thrown without being transport errors.
OtherErrors ==
    {JSerror(<<"Something went wrong">>), JSerror(<<>>), JSstring(<<"An error occurred">>),
     JSstring(<<>>), JSobject([custom |-> JSstring(<<"error">>)]), EmptyObject,
     JSobject([isAxiosError |-> JSstring(<<"true">>), message |-> JSstring(<<"timeout">>)]),
     JSundefined, JSnull, JSnumber("5"), Circular}

FormatError ==
    /\ args.fn = "formatError"
    /\ ret = NotCalled
    /\ LET r == formatError(args.error) IN
       ret' = [fn |-> "formatError", threw |-> r.t = "throw", value |-> r]
    /\ UNCHANGED <<sessionVars, parseVars, pin, args>>

InitFormat ==
    /\ SessionInit
    /\ line = NoLine /\ result = JSundefined /\ probe = NoProbe
    /\ pin = NoInput
    /\ args \in {[fn |-> "formatError", error |-> e] : e \in AxiosErrors \cup OtherErrors}
    /\ ret = NotCalled

NextFormat == FormatError

SpecFormat == InitFormat /\ [][NextFormat]_vars


(***************************************************************************)
(* The same functions on a heap of objects, to see which objects a call    *)
(* writes (config.ts 196-212, 226-292; index.ts 58-66).  A heap is the     *)
(* sequence of its objects, each a function from its keys; a member is a   *)
(* scalar or a reference.  The configuration holds no arrays.              *)
(***************************************************************************)
Ref(r) == [t |-> "ref", v |-> <<r>>]

\* object[key] = value on the heap.
HeapWrite(h, r, key, value) ==
    [h EXCEPT ![r] = [k \in DOMAIN h[r] \cup {key} |-> IF k = key THEN value ELSE h[r][k]]]

\* An object literal: the value laid out on the heap, nested objects first.
RECURSIVE HeapStore(_, _)
RECURSIVE HeapStoreEntries(_, _, _)
HeapStoreEntries(h, entries, cell) ==
    IF entries = <<>> THEN [h |-> h, cell |-> cell]
    ELSE LET s == HeapStore(h, Head(entries)[2]) IN
         HeapStoreEntries(s.h, Tail(entries),
                          [k \in DOMAIN cell \cup {Head(entries)[1]} |->
                              IF k = Head(entries)[1] THEN s.val ELSE cell[k]])

HeapStore(h, v) ==
    IF v.t = "object"
    THEN LET s == HeapStoreEntries(h, Entries(v), <<>>) IN
         [h |-> Append(s.h, s.cell), val |-> Ref(Len(s.h) + 1)]
    ELSE [h |-> h, val |-> v]

\* The value a member of the heap stands for.
RECURSIVE HeapValue(_, _)
HeapValue(h, val) ==
    IF val.t = "ref"
    THEN JSobject([k \in DOMAIN h[val.v[1]] |-> HeapValue(h, h[val.v[1]][k])])
    ELSE val

HeapEntries(cell) ==
    LET keys == SelectSeq(IndexKeys \o NamedKeys, LAMBDA key : key \in DOMAIN cell)
    IN [i \in 1..Len(keys) |-> <<keys[i], cell[keys[i]]>>]

RECURSIVE deepMergeOnHeap(_, _, _)

\* The for loop of deepMerge writing into the object r.
RECURSIVE mergeEntriesOnHeap(_, _, _)
mergeEntriesOnHeap(h, r, entries) ==
    IF entries = <<>> THEN [h |-> h, val |-> Ref(r)]
    ELSE LET key == Head(entries)[1]
             value == Head(entries)[2]
         IN CASE value.t = "undefined" -> mergeEntriesOnHeap(h, r, Tail(entries))
              [] value.t = "ref" ->
                    LET current == IF key \in DOMAIN h[r] THEN h[r][key] ELSE JSundefined
                        fresh == current.t \in {"null", "undefined"}
                        h1 == IF fresh THEN Append(h, <<>>) ELSE h
                        m == deepMergeOnHeap(h1, IF fresh THEN Ref(Len(h1)) ELSE current, value)
                    IN mergeEntriesOnHeap(HeapWrite(m.h, r, key, m.val), r, Tail(entries))
              [] OTHER -> mergeEntriesOnHeap(HeapWrite(h, r, key, value), r, Tail(entries))

\* A deepMerge that writes into base instead of a copy of it.
deepMergeOnHeap_inPlace(h, base, override) ==
    IF override.t # "ref" THEN [h |-> h, val |-> base]
    ELSE IF base.t = "ref"
    THEN mergeEntriesOnHeap(h, base.v[1], HeapEntries(h[override.v[1]]))
    ELSE mergeEntriesOnHeap(Append(h, <<>>), Len(h) + 1, HeapEntries(h[override.v[1]]))

\* deepMerge: result is a new object holding the members of base.
deepMergeOnHeap(h, base, override) ==
    IF override.t # "ref" THEN [h |-> h, val |-> base]
    ELSE mergeEntriesOnHeap(Append(h, IF base.t = "ref" THEN h[base.v[1]] ELSE <<>>),
                            Len(h) + 1, HeapEntries(h[override.v[1]]))

\* The object envOverrides of applyEnvOverrides, or the TypeError of a
\* fallback that reads a section which is null.
envOverridesOf(config, env) ==
    LET set == {i \in 1..Len(envMap) : env[envMap[i].envKey].t # "undefined"}
        valueOf(i) == overrideValue(envMap[i], env[envMap[i].envKey], config)
    IN IF \E i \in set : valueOf(i).t = "throw"
       THEN JSthrow("Cannot read properties of null")
       ELSE JSobject([s \in ConfigSections |->
               JSobject([k \in {envMap[i].key : i \in {j \in set : envMap[j].section = s}}
                           |-> valueOf(CHOOSE i \in set :
                                          envMap[i].section = s /\ envMap[i].key = k)])])

\* loadConfig with defaultConfig at the reference defaults.
loadConfigOnHeap(h, defaults, file, env) ==
    LET fileConfig == HeapStore(h, loadFileConfig(file).value)
        merged == deepMergeOnHeap(fileConfig.h, defaults, fileConfig.val)
        overrides == envOverridesOf(HeapValue(merged.h, merged.val), env)
        stored == HeapStore(merged.h, overrides)
    IN IF overrides.t = "throw" THEN [h |-> merged.h, val |-> overrides]
       ELSE deepMergeOnHeap(stored.h, merged.val, stored.val)

\* { ...config, api: { ...config.api, key: newKey } }
withKeyOnHeap(h, config, newKey) ==
    LET api == h[config.v[1]].api
        h1 == Append(h, IF api.t = "ref" THEN h[api.v[1]] ELSE <<>>)
        h2 == HeapWrite(h1, Len(h1), "key", newKey)
        h3 == Append(h2, h2[config.v[1]])
    IN [h |-> HeapWrite(h3, Len(h3), "api", Ref(Len(h1))), val |-> Ref(Len(h3))]

MaxFrameCalls == 3

FrameEnvironments ==
    {e \in Environments :
        /\ e.PPLX_MODEL_DEFAULT.t = "undefined" /\ e.PPLX_OUTPUT_FORMAT.t = "undefined"
        /\ e.PPLX_AGENT_TEMPERATURE.t = "undefined"
        /\ e.PPLX_API_TIMEOUT \in {JSundefined, JSstring(<<"5000">>), JSstring(<<"abc">>)}
        /\ e.PPLX_SEARCH_MODE \in {JSundefined, JSstring(<<"high">>)}
        /\ e.PPLX_OUTPUT_STREAM \in {JSundefined, JSstring(<<"true">>)}}

\* A call that returned the config val: the config is remembered with the
\* value it had when it was returned.
Returned(r, out) ==
    [r EXCEPT !.heap = out.h,
              !.calls = @ + 1,
              !.configs = IF out.val.t = "ref"
                          THEN @ \cup {[ref |-> out.val, value |-> HeapValue(out.h, out.val)]}
                          ELSE @]

FrameLoadConfig ==
    /\ args.fn = "frame"
    /\ ret.calls < MaxFrameCalls
    /\ ret' = Returned(ret, loadConfigOnHeap(ret.heap, args.defaults, args.file, args.env))
    /\ UNCHANGED <<sessionVars, parseVars, pin, args>>

\* buildApiPayload, and with it askPerplexity and askPerplexityStreaming,
\* on a config returned before: they read the config and write no object.
FrameBuildApiPayload ==
    /\ args.fn = "frame"
    /\ ret.calls < MaxFrameCalls
    /\ \E c \in ret.configs : \E streaming \in BOOLEAN :
          LET config == c.value.v
              payload == [model |-> Member(config.models, "default"),
                          stream |-> streaming,
                          search_mode |-> Member(config.research, "search_mode"),
                          temperature |-> Member(config.agent, "temperature")]
          IN ret' = [ret EXCEPT !.calls = @ + 1, !.payloads = @ \cup {payload}]
    /\ UNCHANGED <<sessionVars, parseVars, pin, args>>

\* handleQuestion up to the request: loadConfig, and a copy of the config
\* with the entered key when neither the environment nor the config has one.
FrameHandleQuestion ==
    /\ args.fn = "frame"
    /\ ret.calls < MaxFrameCalls
    /\ LET config == loadConfigOnHeap(ret.heap, args.defaults, args.file, args.env) IN
       IF config.val.t = "throw" THEN ret' = Returned(ret, config)
       ELSE LET api == Member(HeapValue(config.h, config.val), "api")
                apiKey == Nullish(JSundefined, Read(api, "key"))
            IN IF apiKey.t = "throw" THEN ret' = Returned(ret, [h |-> config.h, val |-> apiKey])
               ELSE IF Falsy(apiKey)
               THEN ret' = Returned(Returned(ret, config),
                                    withKeyOnHeap(config.h, config.val,
                                                  JSstring(<<API_KEY_PREFIX, "a31", "a">>)))
               ELSE ret' = Returned(ret, config)
    /\ UNCHANGED <<sessionVars, parseVars, pin, args>>

InitFrame ==
    /\ SessionInit
    /\ line = NoLine /\ result = JSundefined /\ probe = NoProbe
    /\ pin = NoInput
    /\ LET d == HeapStore(<<>>, defaultConfigValue) IN
       /\ args \in {[fn |-> "frame", heap |-> d.h, defaults |-> d.val, file |-> f, env |-> e] :
                       f \in Files, e \in FrameEnvironments}
       /\ ret = [fn |-> "frame", heap |-> d.h, calls |-> 0,
                 configs |-> {[ref |-> d.val, value |-> defaultConfigValue]},
                 payloads |-> {}]

NextFrame == FrameLoadConfig \/ FrameBuildApiPayload \/ FrameHandleQuestion

SpecFrame == InitFrame /\ [][NextFrame]_vars


(***************************************************************************)
(* startInteractiveSession with its prompt and ask injected (index.ts      *)
(* 98-141).  An input is a sequence of words and whitespace.               *)
(***************************************************************************)
InputWords == {"exit", "EXIT", "Quit", ":exit", ":Help", "help", ":quit", "q1", "Q2"}

\* String.prototype.toLowerCase, word by word.
LowerWord ==
    [w \in InputWords \cup Whitespace |->
        CASE w = "EXIT" -> "exit" [] w = "Quit" -> "quit" [] w = ":Help" -> ":help"
          [] w = "Q2" -> "q2" [] OTHER -> w]

toLowerCase(s) == [i \in 1..Len(s) |-> LowerWord[s[i]]]

\* A loop body that compares the input as typed.
interpret_caseSensitive(input) ==
    LET trimmed == Trim(input) IN
    IF trimmed = <<>> THEN [do |-> "blank", question |-> <<>>]
    ELSE IF trimmed \in {<<":help">>, <<"help">>} THEN [do |-> "help", question |-> <<>>]
    ELSE IF trimmed \in {<<"exit">>, <<"quit">>, <<":exit">>}
    THEN [do |-> "exit", question |-> <<>>]
    ELSE [do |-> "ask", question |-> trimmed]

\* What the loop body does with an input, lines 114-132.
interpret(input) ==
    LET trimmed == Trim(input)
        lower == toLowerCase(trimmed)
    IN IF trimmed = <<>> THEN [do |-> "blank", question |-> <<>>]
       ELSE IF lower = <<":help">> \/ lower = <<"help">>
       THEN [do |-> "help", question |-> <<>>]
       ELSE IF lower = <<"exit">> \/ lower = <<"quit">> \/ lower = <<":exit">>
       THEN [do |-> "exit", question |-> <<>>]
       ELSE [do |-> "ask", question |-> trimmed]

MaxInputs == 3

\* What prompt returns, or throws (Ctrl+C).
PromptResults ==
    {JSthrow("SIGINT")} \cup
    {JSstring(s) : s \in {<<>>, <<SP>>, <<SP, "q1">>, <<"Q2", NL>>, <<"q1", SP, "exit">>,
                          <<":quit">>, <<"help">>, <<SP, ":Help">>, <<"exit">>, <<"EXIT">>,
                          <<SP, "Quit", SP>>, <<":exit">>}}

SessionOptions ==
    {[model |-> JSundefined, searchMode |-> JSundefined, stream |-> JSundefined],
     [model |-> JSstring(<<"sonar-pro">>), searchMode |-> JSundefined,
      stream |-> JSboolean(TRUE)]}

\* The loop calls prompt and acts on the input.
Prompt ==
    /\ args.fn = "startInteractiveSession"
    /\ ret.pc = "prompt"
    /\ Len(ret.inputs) < MaxInputs
    /\ \E input \in PromptResults :
          LET did == IF input.t = "throw" THEN [do |-> "exit", question |-> <<>>]
                     ELSE interpret(input.v)
          IN ret' = [ret EXCEPT
                        !.inputs = Append(@, input),
                        !.pc = CASE did.do = "exit" -> "returned"
                                 [] did.do = "ask" -> "asking"
                                 [] OTHER -> "prompt",
                        !.asked = IF did.do = "ask"
                                  THEN Append(@, [question |-> did.question,
                                                  options |-> args.options])
                                  ELSE @]
    /\ UNCHANGED <<sessionVars, parseVars, pin, args>>

\* The promise of ask is fulfilled: the loop goes on.
AskFulfilled ==
    /\ args.fn = "startInteractiveSession"
    /\ ret.pc = "asking"
    /\ ret' = [ret EXCEPT !.pc = "prompt", !.settled = @ + 1]
    /\ UNCHANGED <<sessionVars, parseVars, pin, args>>

\* The promise of ask is rejected with an Error: the catch of line 135
\* reports it and the loop goes on.
AskRejected ==
    /\ args.fn = "startInteractiveSession"
    /\ ret.pc = "asking"
    /\ \E error \in {JSerror(<<"API error">>), JSerror(<<"Cannot read properties of null">>)} :
          ret' = [ret EXCEPT !.pc = IF formatError(error).t = "throw" THEN "threw" ELSE "prompt",
                             !.settled = @ + 1,
                             !.stderr = Append(@, formatError(error))]
    /\ UNCHANGED <<sessionVars, parseVars, pin, args>>

InitSession ==
    /\ SessionInit
    /\ line = NoLine /\ result = JSundefined /\ probe = NoProbe
    /\ pin = NoInput
    /\ args \in {[fn |-> "startInteractiveSession", options |-> o] : o \in SessionOptions}
    /\ ret = [fn |-> "startInteractiveSession", pc |-> "prompt", inputs |-> <<>>,
              asked |-> <<>>, settled |-> 0, stderr |-> <<>>]

NextSession == Prompt \/ AskFulfilled \/ AskRejected

SpecSession == InitSession /\ [][NextSession]_vars


(***************************************************************************)
(* ensureApiKeyInteractive (index.ts 33-56), called with the path of the   *)
(* settings file of the working directory, as handleQuestion calls it.     *)
(* The .env file holds lines "NAME=text".                                  *)
(***************************************************************************)
EnvLine(name, text) == [kind |-> "env", name |-> name, text |-> text]

\* The settings file loadConfig() finds where a target of the file system is.
settingsAt(target) == IF target.exists THEN FileWith(target.content) ELSE NoFile

\* { ...currentConfig, api: { ...currentConfig.api, key } }
withKey(config, key) ==
    Assign(spread(config), "api", Assign(spread(Member(config, "api")), "key", JSstring(key)))

\* The outcome of a call that throws at this point, with the files as they are.
ensureThrows(message, envFile, configFile) ==
    [threw |-> TRUE, value |-> JSthrow(message), envFile |-> envFile,
     configFile |-> configFile]

\* The prompt has returned key.  The writes are those of an unprivileged
\* process.
ensureApiKeyInteractive(key, envFile, configFile, env, umask) ==
    LET validation == validateApiKeyFormat(JSstring(key))
        written == writeSecureFile(envFile, <<EnvLine("PPLX_API_KEY", Trim(key))>>,
                                   umask, FALSE)
        currentConfig == loadConfig(settingsAt(configFile), env).value
        saved == saveConfig(withKey(currentConfig, Trim(key)), configFile, umask, FALSE)
    IN IF Trim(key) = <<>>
       THEN ensureThrows("API key is required. Run \"enigma config\" to set it later.",
                         envFile, configFile)
       ELSE IF ~validation.valid
       THEN ensureThrows(<<"Invalid API key: ", validation.message, ". Please try again.">>,
                         envFile, configFile)
       ELSE IF written.threw
       THEN ensureThrows("EACCES: permission denied", envFile, configFile)
       ELSE IF currentConfig.t = "throw"
       THEN ensureThrows(currentConfig.v, written.file, configFile)
       ELSE IF saved.threw
       THEN ensureThrows("EACCES: permission denied", written.file, configFile)
       ELSE [threw |-> FALSE, value |-> JSstring(Trim(key)), envFile |-> written.file,
             configFile |-> saved.file]

\* What the user types at the prompt.
EnteredKeys ==
    {<<>>, <<SP>>, <<"!">>, <<API_KEY_PREFIX, "a">>, <<API_KEY_PREFIX, "a31", "!">>,
     <<API_KEY_PREFIX, "a31", "a">>, <<SP, API_KEY_PREFIX, "a31", "a", SP>>,
     <<API_KEY_PREFIX, "a91", "a31", "a">>}

\* The files the call may find: none, or one its owner can write.
EnvTargets ==
    {NoTarget,
     [exists |-> TRUE, mode |-> {"ur", "uw", "gr", "or"},
      content |-> <<EnvLine("PPLX_API_KEY", <<"old">>)>>]}

ConfigTargets ==
    {NoTarget} \cup
    {[exists |-> TRUE, mode |-> {"ur", "uw", "gr", "or"}, content |-> f.raw] :
        f \in Files \ {NoFile}}

EnsureEnvironments ==
    {e \in Environments :
        /\ e.PPLX_API_TIMEOUT \in {JSundefined, JSstring(<<"5000">>), JSstring(<<"abc">>)}
        /\ e.PPLX_MODEL_DEFAULT = JSundefined /\ e.PPLX_AGENT_TEMPERATURE = JSundefined
        /\ e.PPLX_SEARCH_MODE = JSundefined /\ e.PPLX_OUTPUT_FORMAT = JSundefined
        /\ e.PPLX_OUTPUT_STREAM = JSundefined}

EnsureApiKeyInteractive ==
    /\ args.fn = "ensureApiKeyInteractive"
    /\ ret = NotCalled
    /\ LET r == ensureApiKeyInteractive(args.key, args.envFile, args.configFile, args.env,
                                        args.umask) IN
       ret' = [fn |-> "ensureApiKeyInteractive", threw |-> r.threw, value |-> r.value,
               envFile |-> r.envFile, configFile |-> r.configFile]
    /\ UNCHANGED <<sessionVars, parseVars, pin, args>>

InitEnsure ==
    /\ SessionInit
    /\ line = NoLine /\ result = JSundefined /\ probe = NoProbe
    /\ pin = NoInput
    /\ args \in {[fn |-> "ensureApiKeyInteractive", key |-> k, envFile |-> e,
                  configFile |-> c, env |-> v, umask |-> u] :
                    k \in EnteredKeys, e \in EnvTargets, c \in ConfigTargets,
                    v \in EnsureEnvironments, u \in {{}, {"gw", "ow"}}}
    /\ ret = NotCalled

NextEnsure == EnsureApiKeyInteractive

SpecEnsure == InitEnsure /\ [][NextEnsure]_vars



(***************************************************************************)
(* saveConfig followed by loadConfig on the same directory (config.ts      *)
(* 288-301), with no PPLX_* variable in the environment.                   *)
(***************************************************************************)
\* process.env without any variable of envMap.
NoEnvironment == [v \in {envMap[i].envKey : i \in 1..Len(envMap)} |-> JSundefined]

\* An EnigmaConfig from its leaves.
configOf(key, base_url, timeout, model, temperature, search_mode, format, stream) ==
    JSobject(
       [api |-> JSobject([key |-> key, base_url |-> base_url, timeout |-> timeout]),
        models |-> JSobject([default |-> model]),
        agent |-> JSobject([temperature |-> temperature,
                            max_tokens |-> JSnumber(defaultConfig.agent.max_tokens),
                            top_p |-> JSnumber(defaultConfig.agent.top_p)]),
        research |-> JSobject([search_mode |-> search_mode]),
        output |-> JSobject([format |-> format, stream |-> stream])])

\* Configs with every field defined (api.key is optional): strings that read
\* as a number, a boolean, null or an empty mapping, an empty and a padded
\* string among them.
RoundTripConfigs ==
    {configOf(k, b, t, m, a, s, f, o) :
        k \in {JSundefined, JSstring(<<API_KEY_PREFIX, "a31", "a">>), JSstring(<<"5000">>),
               JSstring(<<>>), JSstring(<<SP, "k", SP>>), JSstring(<<"{}">>)},
        b \in {JSstring(<<defaultConfig.api.base_url>>), JSstring(<<"true">>)},
        t \in {JSnumber("60000"), JSnumber("0")},
        m \in {JSstring(<<"sonar-pro">>), JSstring(<<"null">>), JSstring(<<"~">>)},
        a \in {JSnumber("0.3"), JSnumber("1")},
        s \in {JSstring(<<"medium">>), JSstring(<<"high">>)},
        f \in {JSstring(<<"markdown">>), JSstring(<<"json">>)},
        o \in {JSboolean(TRUE), JSboolean(FALSE)}}

\* dir/.pplxrc before the save: absent, or an older file its owner can write.
RoundTripTargets ==
    {NoTarget,
     [exists |-> TRUE, mode |-> {"ur", "uw", "gr", "or"},
      content |-> <<HeaderLine("api"), LeafLine("timeout", <<"5">>)>>]}

\* saveConfig(c, dir/.pplxrc)
RoundTripSave ==
    /\ args.fn = "roundTrip"
    /\ ret = NotCalled
    /\ LET r == saveConfig(args.config, args.target, args.umask, FALSE) IN
       ret' = [fn |-> "saveConfig", threw |-> r.threw, file |-> r.file, value |-> JSundefined]
    /\ UNCHANGED <<sessionVars, parseVars, pin, args>>

\* loadConfig(dir)
RoundTripLoad ==
    /\ args.fn = "roundTrip"
    /\ ret.fn = "saveConfig"
    /\ ~ret.threw
    /\ LET r == loadConfig(settingsAt(ret.file), NoEnvironment) IN
       ret' = [fn |-> "loadConfig", threw |-> r.value.t = "throw", file |-> ret.file,
               value |-> r.value]
    /\ UNCHANGED <<sessionVars, parseVars, pin, args>>

InitRoundTrip ==
    /\ SessionInit
    /\ line = NoLine /\ result = JSundefined /\ probe = NoProbe
    /\ pin = NoInput
    /\ args \in {[fn |-> "roundTrip", config |-> c, target |-> t, umask |-> u] :
                    c \in RoundTripConfigs, t \in RoundTripTargets, u \in {{}, {"gw", "ow"}}}
    /\ ret = NotCalled

NextRoundTrip == RoundTripSave \/ RoundTripLoad

SpecRoundTrip == InitRoundTrip /\ [][NextRoundTrip]_vars



(***************************************************************************)
(* handleQuestion (index.ts 58-93), from the point where loadConfig() has  *)
(* returned config: the key set-up, the choice of the transport, and the   *)
(* settling of the transport's promise.                                    *)
(***************************************************************************)
\* A transport that follows config.output.stream alone.
useStreaming_configOnly(options, config) == config.output.stream

\* options.stream !== undefined ? options.stream : effectiveConfig.output.stream,
\* as the condition of the if reads it.
useStreaming(options, config) ==
    IF options.stream.t # "undefined"
    THEN options.stream.t = "boolean" /\ options.stream.v[1]
    ELSE config.output.stream

\* Lines 59-86 up to the await; entered is what the user types when
\* ensureApiKeyInteractive prompts.
handleQuestionCalls(question, options, config, envKey, entered) ==
    LET apiKey == Nullish(envKey, config.api.key)
        validation == validateApiKeyFormat(JSstring(entered))
        effectiveConfig == IF Falsy(apiKey)
                           THEN [config EXCEPT !.api.key = JSstring(Trim(entered))]
                           ELSE config
    IN IF Falsy(apiKey) /\ Trim(entered) = <<>>
       THEN [threw |-> TRUE,
             error |-> JSerror(<<"API key is required. Run \"enigma config\" to set it later.">>),
             transports |-> <<>>]
       ELSE IF Falsy(apiKey) /\ ~validation.valid
       THEN [threw |-> TRUE,
             error |-> JSerror(<<"Invalid API key: ", validation.message, ". Please try again.">>),
             transports |-> <<>>]
       ELSE [threw |-> FALSE, error |-> JSundefined,
             transports |->
                <<[kind |-> IF useStreaming(options, effectiveConfig) THEN "stream" ELSE "ask",
                   question |-> question,
                   config |-> effectiveConfig,
                   options |-> [model |-> options.model, searchMode |-> options.searchMode]]>>]

\* The errors a transport rejects with: the missing key, an interrupted
\* stream, and what axios rejects with.
TransportErrors ==
    {JSerror(MissingKeyError), JSerror(<<"Stream interrupted: ", "aborted">>)}
       \cup {e \in AxiosErrors : Member(e, "message") = JSstring(<<"timeout">>)}

\* The options handleQuestion is given.
QuestionOptions ==
    [model : {JSundefined, JSstring(<<"sonar-reasoning">>)},
     searchMode : {JSundefined, JSstring(<<"high">>)},
     stream : {JSundefined, JSboolean(TRUE), JSboolean(FALSE)}]

\* What loadConfig() returned, and PPLX_API_KEY: a key of the environment is
\* the config's key as well (config.ts 234-236).
QuestionInputs ==
    {i \in [fn : {"handleQuestion"}, question : {Question}, options : QuestionOptions,
            config : {[defaultConfig EXCEPT !.api.key = k, !.output.stream = s] :
                         k \in ApiKeys, s \in BOOLEAN},
            envKey : ApiKeys,
            entered : {<<>>, <<"!">>, <<SP, API_KEY_PREFIX, "a31", "a", SP>>}] :
        i.envKey.t = "undefined" \/ i.config.api.key = i.envKey}

\* handleQuestion runs up to its await, or throws.
HandleQuestionCalls ==
    /\ args.fn = "handleQuestion"
    /\ ret.pc = "called"
    /\ LET r == handleQuestionCalls(args.question, args.options, args.config, args.envKey,
                                    args.entered) IN
       ret' = [ret EXCEPT !.pc = IF r.threw THEN "threw" ELSE "awaiting",
                          !.thrown = r.error,
                          !.transports = r.transports]
    /\ UNCHANGED <<sessionVars, parseVars, pin, args>>

\* The transport's promise is fulfilled (lines 79 and 87): possible when the
\* transport finds a key (perplexity.ts 138-140, 208-210).
TransportFulfils ==
    /\ args.fn = "handleQuestion"
    /\ ret.pc = "awaiting"
    /\ ~missingKey(resolveApiKey(args.envKey, ret.transports[1].config))
    /\ ret' = [ret EXCEPT !.pc = "returned", !.stdout = Append(@, <<"answer">>)]
    /\ UNCHANGED <<sessionVars, parseVars, pin, args>>

\* The transport's promise is rejected: the catch of lines 89-92.
TransportRejects ==
    /\ args.fn = "handleQuestion"
    /\ ret.pc = "awaiting"
    /\ \E error \in TransportErrors :
          /\ missingKey(resolveApiKey(args.envKey, ret.transports[1].config))
                <=> error = JSerror(MissingKeyError)
          /\ ret' = [ret EXCEPT !.pc = IF formatError(error).t = "throw"
                                       THEN "threw" ELSE "returned",
                                !.rejection = error,
                                !.stderr = Append(@, formatError(error)),
                                !.exitCode = 1]
    /\ UNCHANGED <<sessionVars, parseVars, pin, args>>

InitQuestion ==
    /\ SessionInit
    /\ line = NoLine /\ result = JSundefined /\ probe = NoProbe
    /\ pin = NoInput
    /\ args \in QuestionInputs
    /\ ret = [fn |-> "handleQuestion", pc |-> "called", transports |-> <<>>,
              thrown |-> JSundefined, rejection |-> JSundefined, stdout |-> <<>>,
              stderr |-> <<>>, exitCode |-> 0]

NextQuestion == HandleQuestionCalls \/ TransportFulfils \/ TransportRejects

SpecQuestion == InitQuestion /\ [][NextQuestion]_vars



(***************************************************************************)
(* One response body delivered to the handlers of askPerplexityStreaming   *)
(* (perplexity.ts 224-255) in chunks cut at any byte.                      *)
(***************************************************************************)
\* The closure when the handlers are attached, with the body still to come.
Attached(body) ==
    [IdleCall EXCEPT !.kind = "stream", !.pc = "listening", !.stream = "open",
                     !.wire = body]

\* The body arriving as one chunk, then 'end': the fragments written and the
\* state of the promise.
deliverWhole(body) ==
    LET c1 == IF body = <<>> THEN Attached(<<>>)
              ELSE dataHandler(Attached(<<>>), body)
        c2 == endHandler([c1 EXCEPT !.stream = "ended"])
    IN [fragments |-> c1.out \o c2.out, outcome |-> c2.promise.state]

\* The bodies: up to MaxChunkLines of the lines the server sends.
MaxChunkLines == 2

ChunkBodies == UNION {Bodies(n) : n \in 0..MaxChunkLines}

\* 'data' with the next k bytes of the body.
ChunkArrives ==
    /\ args.fn = "deliver"
    /\ ret.c.stream = "open"
    /\ \E k \in 1..Len(ret.c.wire) :
          LET c == dataHandler([ret.c EXCEPT !.wire = SubSeq(@, k + 1, Len(@))],
                               SubSeq(ret.c.wire, 1, k))
          IN ret' = [ret EXCEPT !.c = [c EXCEPT !.out = <<>>],
                                !.chunks = Append(@, SubSeq(ret.c.wire, 1, k)),
                                !.buffers = Append(@, c.buffer),
                                !.fragments = @ \o c.out]
    /\ UNCHANGED <<sessionVars, parseVars, pin, args>>

\* 'end' once the whole body has arrived.
StreamEnds ==
    /\ args.fn = "deliver"
    /\ ret.c.stream = "open"
    /\ ret.c.wire = <<>>
    /\ LET c == endHandler([ret.c EXCEPT !.stream = "ended"])
       IN ret' = [ret EXCEPT !.c = [c EXCEPT !.out = <<>>],
                             !.fragments = @ \o c.out]
    /\ UNCHANGED <<sessionVars, parseVars, pin, args>>

InitChunks ==
    /\ SessionInit
    /\ line = NoLine /\ result = JSundefined /\ probe = NoProbe
    /\ pin = NoInput
    /\ args \in {[fn |-> "deliver", body |-> b] : b \in ChunkBodies}
    /\ ret = [fn |-> "deliver", c |-> Attached(args.body), chunks |-> <<>>,
              buffers |-> <<>>, fragments |-> <<>>]

NextChunks == ChunkArrives \/ StreamEnds

SpecChunks == InitChunks /\ [][NextChunks]_vars



(***************************************************************************)
(* What the claims are stated over.                                        *)
(***************************************************************************)
\* The streaming calls whose closure exists.
Listening == {i \in CallIds : calls[i].pc = "listening"}

\* The fragments call i has written, in output order.
FragmentsBy(i) ==
    LET own == SelectSeq(stdout, LAMBDA e : e.call = i)
    IN [k \in 1..Len(own) |-> own[k].text]

\* The newline-terminated lines call i has received, and what follows them.
ReceivedLines(i) ==
    LET segs == split(calls[i].received) IN SubSeq(segs, 1, Len(segs) - 1)

ReceivedTail(i) ==
    LET segs == split(calls[i].received) IN segs[Len(segs)]

IsPrefix(p, w) == Len(p) <= Len(w) /\ SubSeq(w, 1, Len(p)) = p

\* The lines of the protocol: the terminal frame 'data: [DONE]' and a data
\* frame whose JSON holds a string at choices[0].delta.content.
IsDataLine(ln) == ln # <<>> /\ ln[1] = DATA

IsDoneFrame(ln) == IsDataLine(ln) /\ Tail(ln) = <<DONE>>

DeltaContent(data) ==
    LET parsed == JSONparse(data) IN
    IF parsed.ok
    THEN OptGet(OptGet(OptGet(OptGet(parsed.value, "choices"), "0"), "delta"), "content")
    ELSE JSundefined

HasFragment(ln) ==
    IsDataLine(ln) /\ ~IsDoneFrame(ln) /\ DeltaContent(Tail(ln)).t = "string"

\* Index of the first line the parser answers 'done' for, or 0.
FirstDone(lines) ==
    IF \E k \in 1..Len(lines) : parseSSELine(lines[k]) = DoneSignal
    THEN CHOOSE k \in 1..Len(lines) :
            /\ parseSSELine(lines[k]) = DoneSignal
            /\ \A h \in 1..(k - 1) : parseSSELine(lines[h]) # DoneSignal
    ELSE 0

\* The results of the parser on the lines that are neither null nor 'done'.
RECURSIVE FragmentsOf(_)
FragmentsOf(lines) ==
    IF lines = <<>> THEN <<>>
    ELSE LET r == parseSSELine(Head(lines)) IN
         (IF r.t = "string" /\ r # DoneSignal THEN <<r.v>> ELSE <<>>)
            \o FragmentsOf(Tail(lines))

C2_NothingDeliveredAfterDone ==
    \A i \in Listening :
        FirstDone(ReceivedLines(i)) > 0 =>
            FragmentsBy(i) = FragmentsOf(SubSeq(ReceivedLines(i), 1,
                                                FirstDone(ReceivedLines(i)) - 1))

\* C3: parseSSELine returns the done signal if and only if the text after
\* 'data: ' is exactly '[DONE]', and for a data line whose JSON holds a
\* string at choices[0].delta.content it returns that string, which is then
\* not the done signal.
C3_DoneOnlyForDoneFrame ==
    result # JSundefined =>
        /\ (result = DoneSignal) <=> IsDoneFrame(line)
        /\ HasFragment(line) => result = JSstring(DeltaContent(Tail(line)).v)

\* The lines for which the parser is to answer null.
C4_NullCase(ln) ==
    \/ Trim(ln) = <<>>
    \/ ln[1] = COLON
    \/ ln[1] # DATA
    \/ /\ ln[1] = DATA
       /\ Tail(ln) # <<DONE>>
       /\ \/ ~JSONparse(Tail(ln)).ok
          \/ DeltaContent(Tail(ln)).t # "string"

\* C4: parseSSELine never throws, and returns null for a blank line, a line
\* beginning with ':', a line not beginning with 'data: ', a data line other
\* than the terminal frame whose remainder is not valid JSON or whose JSON
\* holds no string at choices[0].delta.content; in a data event such a line
\* is skipped and the line after it is parsed and its fragment written.
C4_NullLinesAreSkipped ==
    /\ result.t # "throw"
    /\ (result # JSundefined /\ C4_NullCase(line)) => result = JSnull
    /\ (probe # NoProbe /\ C4_NullCase(line)) =>
          /\ probe.state = "pending"
          /\ probe.parsed = <<line, ProbeLine>>
          /\ probe.out = << <<"a">> >>

\* C4 witness: a data line with malformed JSON was parsed to null and the
\* data event that held it wrote the fragment of the line after it.
C4_Witness ==
    /\ line = <<DATA, Jpre, "a">>
    /\ result = JSnull
    /\ probe.out = << <<"a">> >>

C6_ErrorRejectsAndKeepsOutput ==
    \A i \in Listening :
        (calls[i].stream = "errored" /\ FirstDone(ReceivedLines(i)) = 0) =>
            /\ calls[i].promise = Rejected(<<"Stream interrupted: ">> \o calls[i].error)
            /\ calls[i].parsed = ReceivedLines(i)
            /\ FragmentsBy(i) = FragmentsOf(ReceivedLines(i))

\* C6 witness: the error came after a fragment was written and while the
\* buffer held an unterminated content line.
C6_Witness ==
    \E i \in Listening :
        /\ calls[i].stream = "errored"
        /\ FirstDone(ReceivedLines(i)) = 0
        /\ FragmentsBy(i) # <<>>
        /\ FragmentsOf(<<calls[i].buffer>>) # <<>>
        /\ calls[i].promise.state = "rejected"

\* The outcome a call has by what its stream has produced, its stability,
\* and the stream having produced done, end or error.
C7_Outcome ==
    \A i \in Listening :
        LET d == FirstDone(ReceivedLines(i)) IN
        /\ (d > 0 \/ calls[i].stream = "ended") => calls[i].promise = Fulfilled
        /\ (d = 0 /\ calls[i].stream = "errored") =>
              calls[i].promise = Rejected(<<"Stream interrupted: ">> \o calls[i].error)
        /\ (d = 0 /\ calls[i].stream = "open") => calls[i].promise = Pending

C7_SettledStays ==
    \A i \in CallIds :
        calls[i].promise.state # "pending" => calls[i].promise' = calls[i].promise

C7_Produced(i) ==
    /\ calls[i].pc = "listening"
    /\ \/ calls[i].stream \in {"ended", "errored"}
       \/ FirstDone(ReceivedLines(i)) > 0

HasKey(v) == v.t = "string" /\ v.v # <<>>

\* C8: a call fails with the missing-key error and posts nothing whenever
\* neither the environment nor the config holds a key, a call that failed
\* with that error has posted nothing, and every POST carries a non-empty
\* key taken from one of the two.
C8_MissingKeyBeforeAnyPost ==
    \A i \in CallIds :
        calls[i].kind # "none" =>
            LET posts == SelectSeq(requests, LAMBDA r : r.call = i) IN
            /\ (~HasKey(pin.envKey) /\ ~HasKey(pin.config.api.key)) =>
                  calls[i].promise = Rejected(MissingKeyError)
            /\ ~HasKey(resolveApiKey(pin.envKey, pin.config)) =>
                  calls[i].promise = Rejected(MissingKeyError)
            /\ calls[i].promise = Rejected(MissingKeyError) => posts = <<>>
            /\ \A k \in 1..Len(posts) :
                  \E key \in {pin.envKey, pin.config.api.key} :
                      HasKey(key) /\ posts[k].authorization = <<"Bearer ">> \o key.v

\* C8 witness: both transports were called with an empty environment key
\* and no config key, and both failed without a POST.
C8_Witness ==
    /\ pin.envKey = JSstring(<<>>)
    /\ pin.config.api.key = JSundefined
    /\ calls[1].promise = Rejected(MissingKeyError)
    /\ calls[2].promise = Rejected(MissingKeyError)
    /\ requests = <<>>

\* C9: once a call has returned to its caller, its response delivers no
\* further data: the output of a returned call never grows.
C9_NoOutputAfterReturn ==
    [][\A i \in CallIds : calls[i].returned => FragmentsBy(i)' = FragmentsBy(i)]_vars

C11_Content(data) ==
    IF data.t = "object" /\ "choices" \in DOMAIN data.v
       /\ data.v.choices.t = "array" /\ Len(data.v.choices.v) >= 1
       /\ data.v.choices.v[1].t = "object" /\ "message" \in DOMAIN data.v.choices.v[1].v
       /\ data.v.choices.v[1].v.message.t = "object"
       /\ "content" \in DOMAIN data.v.choices.v[1].v.message.v
    THEN data.v.choices.v[1].v.message.v.content
    ELSE JSundefined

\* C11: on a successful response askPerplexity returns
\* choices[0].message.content without its leading and trailing whitespace
\* when that is a string, and the pretty-printed JSON of the whole body
\* otherwise; no shape of the body makes it throw.
C11_AnswerOrJson ==
    ret # NotCalled =>
        /\ ~ret.threw
        /\ LET content == C11_Content(args.data) IN
           IF content.t = "string"
           THEN /\ ret.value.t = "string"
                /\ \E pre, post \in UNION {[1..n -> Whitespace] : n \in 0..MaxContentLen} :
                      content.v = pre \o ret.value.v \o post
                /\ ret.value.v # <<>> =>
                      /\ ret.value.v[1] \notin Whitespace
                      /\ ret.value.v[Len(ret.value.v)] \notin Whitespace
           ELSE ret.value = JSONstringify(args.data)

\* C11 witness: a content with whitespace on both sides was returned
\* trimmed.
C11_Witness ==
    /\ ret # NotCalled
    /\ C11_Content(args.data) = JSstring(<<SP, "a", NL>>)
    /\ ret.value = JSstring(<<"a">>)



\* C16: for every base built from nested objects, arrays and scalars,
\* deepMerge(base, base) is structurally equal to base.
C16_MergeWithItselfIsBase ==
    (ret.fn = "deepMerge" /\ args.override = args.base) => ret.value = args.base

C16_Witness ==
    /\ ret.fn = "deepMerge"
    /\ args.base = JSobject([x |-> JSobject([x |-> JSarray(<<JSnumber(5)>>)]),
                             y |-> JSarray(<<JSnumber(5)>>)])
    /\ args.override = args.base
    /\ ret.value = args.base

\* r is the field-by-field overlay of o on b: b itself under a null or
\* non-object o; otherwise a container of b's kind in which a key of o holding
\* undefined, or absent from o, has b's value, a key holding an array has that
\* array, a key holding an object has the overlay of that object on b's value
\* (on {} where b has none), and any other key has o's value.
RECURSIVE IsOverlay(_, _, _)
IsOverlay(r, b, o) ==
    IF ~IsObjectLike(o) THEN r = b
    ELSE /\ r.t = (IF b.t = "array" THEN "array" ELSE "object")
         /\ \A i \in 1..Len(IndexKeys \o NamedKeys) :
               LET key == (IndexKeys \o NamedKeys)[i]
                   value == Member(o, key)
               IN CASE value.t = "undefined" -> Member(r, key) = Member(b, key)
                    [] value.t = "array" -> Member(r, key) = value
                    [] value.t = "object" ->
                          IsOverlay(Member(r, key), Nullish(Member(b, key), EmptyObject), value)
                    [] OTHER -> Member(r, key) = value

\* C17: deepMerge(base, override) is the field-by-field overlay of override on
\* base: a null or non-object override returns base; a key whose override
\* value is undefined, or that override lacks, keeps the base value; an array
\* value is taken whole; an object value is merged with the base value
\* recursively.
C17_MergeIsOverlay ==
    ret.fn = "deepMerge" => IsOverlay(ret.value, args.base, args.override)

C17_Witness ==
    /\ ret.fn = "deepMerge"
    /\ args.base = JSobject([x |-> JSnumber(5), y |-> JSobject([x |-> JSstring(<<"a">>)])])
    /\ args.override = JSobject([x |-> JSundefined,
                                 y |-> JSobject([x |-> JSarray(<<JSnumber(5)>>)])])
    /\ ret.value = JSobject([x |-> JSnumber(5),
                             y |-> JSobject([x |-> JSarray(<<JSnumber(5)>>)])])


\* The leaves of the configuration, as <<section, key>>.
ConfigLeaves ==
    UNION {{<<s, k>> : k \in DOMAIN defaultConfigValue.v[s].v} : s \in ConfigSections}

LeafOf(config, leaf) == Member(Member(config, leaf[1]), leaf[2])

\* What the environment gives for a leaf: the parsed value of its variable,
\* undefined when the variable is unset, has no parsed value, or does not exist.
EnvValue(leaf, env) ==
    LET entries == {i \in 1..Len(envMap) :
                       envMap[i].section = leaf[1] /\ envMap[i].key = leaf[2]}
    IN IF entries = {} THEN JSundefined
       ELSE LET e == envMap[CHOOSE i \in entries : TRUE]
                value == env[e.envKey]
            IN CASE e.kind = "string" -> value
                 [] e.kind = "number" -> parseNumber(value)
                 [] e.kind = "searchMode" -> parseSearchMode(value)
                 [] e.kind = "outputFormat" -> parseOutputFormat(value)
                 [] e.kind = "boolean" -> parseBoolean(value)

\* The file's value for a leaf where the file defines it, the default otherwise.
FileOrDefault(leaf, file) ==
    IF LeafOf(loadFileConfig(file).value, leaf).t # "undefined"
    THEN LeafOf(loadFileConfig(file).value, leaf)
    ELSE LeafOf(defaultConfigValue, leaf)

\* C12: every leaf of the config loadConfig returns is, independently of the
\* others, the parsed value of its environment variable when that is set and
\* valid, else the value the settings file defines for it, else the default.
C12_LeafPrecedence ==
    (ret.fn = "loadConfig" /\ ~ret.threw) =>
       \A leaf \in ConfigLeaves :
          LeafOf(ret.value, leaf) =
             (IF EnvValue(leaf, args.env).t # "undefined" THEN EnvValue(leaf, args.env)
              ELSE FileOrDefault(leaf, args.file))

\* C13: for every settings file and every environment, every field of the
\* returned config other than api.key is defined.
C13_EveryFieldDefined ==
    (ret.fn = "loadConfig" /\ ~ret.threw) =>
       \A leaf \in ConfigLeaves \ {<<"api", "key">>} :
          LeafOf(ret.value, leaf).t # "undefined"

Malformed(file) == file.exists /\ YAMLparse(file.raw).t = "throw"

\* C14: loadConfig never throws, whatever the settings file holds; on a
\* malformed file it writes the warning and returns the config it returns
\* with the file absent.
C14_MalformedFileIsAbsentFile ==
    ret.fn = "loadConfig" =>
       /\ ~ret.threw
       /\ Malformed(args.file) =>
             /\ ret.warned
             /\ ret.value = loadConfig(NoFile, args.env).value

\* The variables of numeric and enumerated leaves that are set to a value
\* with no parsed value.
IgnoredEntries(env) ==
    {i \in 1..Len(envMap) :
        /\ envMap[i].kind \in {"number", "searchMode", "outputFormat"}
        /\ env[envMap[i].envKey].t # "undefined"
        /\ EnvValue(<<envMap[i].section, envMap[i].key>>, env).t = "undefined"}

\* C15: an invalid value of a numeric or enumerated environment variable is
\* ignored: its leaf has the file's value, or the default where the file has
\* none, and the config is the one returned with the variable unset.
C15_InvalidVariableIsIgnored ==
    ret.fn = "loadConfig" =>
       \A i \in IgnoredEntries(args.env) :
          /\ ~ret.threw
          /\ LeafOf(ret.value, <<envMap[i].section, envMap[i].key>>)
                = FileOrDefault(<<envMap[i].section, envMap[i].key>>, args.file)
          /\ ret.value
                = loadConfig(args.file,
                             [args.env EXCEPT ![envMap[i].envKey] = JSundefined]).value


\* The class the key falls in: EMPTY when absent or blank; otherwise, on the
\* key without its surrounding whitespace, WRONG_PREFIX, TOO_SHORT under 37
\* characters, TOO_LONG over 128, INVALID_CHARS, and VALID when none applies.
KeyClass(key) ==
    IF key.t # "string" \/ Trim(key.v) = <<>> THEN "EMPTY"
    ELSE IF ~startsWith(Trim(key.v), API_KEY_PREFIX) THEN "WRONG_PREFIX"
    ELSE IF length(Trim(key.v)) < 37 THEN "TOO_SHORT"
    ELSE IF length(Trim(key.v)) > 128 THEN "TOO_LONG"
    ELSE IF \E i \in 2..Len(Trim(key.v)) : Trim(key.v)[i] \notin KeyCharRuns
    THEN "INVALID_CHARS"
    ELSE "VALID"

ClassOf(outcome) ==
    CASE outcome.valid -> "VALID"
      [] outcome.message = "API key is required" -> "EMPTY"
      [] outcome.message = "API key must start with \"pplx-\"" -> "WRONG_PREFIX"
      [] outcome.message = "API key is too short" -> "TOO_SHORT"
      [] outcome.message = "API key is too long" -> "TOO_LONG"
      [] outcome.message = "API key contains invalid characters" -> "INVALID_CHARS"

\* C18: validateApiKeyFormat puts every key in its class: EMPTY when absent
\* or blank, else WRONG_PREFIX, else TOO_SHORT or TOO_LONG outside 37..128
\* characters, else INVALID_CHARS, and valid only when none applies.
C18_KeyClassification ==
    ret.fn = "validateApiKeyFormat" => ClassOf(ret.value) = KeyClass(args.key)


\* C19: after saveConfig or writeSecureFile returns, the written file has
\* mode 0600, owner read and write and nothing for group or world, whatever
\* the target path held before, a file with wider permissions included.
C19_WrittenFileIsOwnerOnly ==
    (ret.fn \in {"saveConfig", "writeSecureFile"} /\ ~ret.threw) =>
       /\ ret.file.exists
       /\ ret.file.mode = {"ur", "uw"}


\* C20: validateModelName returns the config's default model, not warned,
\* when no model is requested; the requested model, not warned, when it is
\* one of AVAILABLE_MODELS; otherwise it writes a warning and returns the
\* default, warned.  It never fails.
C20_ModelNameFallsBack ==
    ret.fn = "validateModelName" =>
       /\ ~ret.threw
       /\ LET requested == args.model
              default == args.config.models.default
              listed == {"sonar", "sonar-pro", "sonar-reasoning", "sonar-reasoning-pro",
                         "sonar-reasoning-large", "sonar-deep-research", "sonar-large"}
          IN CASE requested.t = "undefined" \/ requested.v = <<>> ->
                     /\ ret.value.model = default
                     /\ ~ret.value.warned
                     /\ ret.value.stderr = <<>>
               [] \E m \in listed : requested = JSstring(<<m>>) ->
                     /\ JSstring(<<ret.value.model>>) = requested
                     /\ ~ret.value.warned
                     /\ ret.value.stderr = <<>>
               [] OTHER ->
                     /\ ret.value.model = default
                     /\ ret.value.warned
                     /\ Len(ret.value.stderr) = 1
                     /\ ret.value.stderr[1].model = requested.v
                     /\ ret.value.stderr[1].available = listed

C20_Witness ==
    /\ ret.fn = "validateModelName"
    /\ args.model = JSstring(<<"gpt-4">>)
    /\ args.config.models.default = "sonar-reasoning"
    /\ ret.value.model = "sonar-reasoning"
    /\ ret.value.warned
    /\ ret.value.stderr # <<>>


\* The row of the decision table a transport error falls in, by its status
\* ("" when there is none) and whether it has a transport code.
C21_Row(status, hasCode) ==
    CASE status = "" /\ hasCode -> "network"
      [] status \in {"401", "403"} -> "unauthorized"
      [] status = "404" -> "notFound"
      [] status = "429" -> "rateLimit"
      [] status \in {"500", "502", "503"} -> "server"
      [] status # "" -> "apiStatus"
      [] OTHER -> "api"

\* C21: for a transport error formatError gives the message of the first
\* row of the table that applies: the network message naming the code (no
\* status, a code), unauthorized (401, 403), endpoint not found (404), rate
\* limit (429), server error naming the status (500, 502, 503), 'API error
\* (<status>): <detail>' (any other status), 'API error: <message>' (neither).
C21_DecisionTable ==
    (ret.fn = "formatError" /\ isAxiosError(args.error)) =>
       LET e == args.error.v
           status == IF e.response.t = "undefined" THEN "" ELSE e.response.v.status.v[1]
           hasCode == e.code.t = "string" /\ e.code.v # <<>>
           row == C21_Row(status, hasCode)
           text == ret.value.v
       IN /\ ret.value.t = "string"
          /\ row = "network" =>
                text = <<"Network error (">> \o e.code.v
                          \o <<"). Please check your connection and try again.">>
          /\ row = "unauthorized" =>
                text = <<"API key invalid or unauthorized. Run \"enigma config\" to update your key.">>
          /\ row = "notFound" => text = <<"Endpoint not found. Please try again in a moment.">>
          /\ row = "rateLimit" =>
                text = <<"Rate limit exceeded. Please wait a moment and try again.">>
          /\ row = "server" =>
                text = <<"Server error (", status,
                         "). The Perplexity API may be temporarily unavailable. Please try again later.">>
          /\ row = "apiStatus" =>
                /\ SubSeq(text, 1, 3) = <<"API error (", status, "): ">>
                /\ LET d == IF e.response.v.data.t = "object"
                                  /\ "error" \in DOMAIN e.response.v.data.v
                            THEN e.response.v.data.v.error ELSE JSundefined
                   IN /\ d.t = "string" => SubSeq(text, 4, Len(text)) = d.v
                      /\ d.t \in {"undefined", "null"} =>
                            SubSeq(text, 4, Len(text)) = e.message.v
          /\ row = "api" => text = <<"API error: ">> \o e.message.v

C21_Witness ==
    /\ ret.fn = "formatError"
    /\ isAxiosError(args.error)
    /\ args.error.v.code = JSstring(<<"ERR_BAD_REQUEST">>)
    /\ args.error.v.response.t = "object"
    /\ args.error.v.response.v.status = JSnumber("401")
    /\ ret.value = JSstring(<<"API key invalid or unauthorized. Run \"enigma config\" to update your key.">>)

\* C22: formatError returns a message string for every value and never
\* throws: the message of an Error, a string itself, and the JSON rendering
\* of any other value that is not a transport error.
C22_FormatErrorIsTotal ==
    ret.fn = "formatError" =>
       /\ ~ret.threw
       /\ ret.value.t = "string"
       /\ args.error.t = "error" => ret.value.v = args.error.v
       /\ args.error.t = "string" => ret.value = args.error
       /\ args.error = JSobject([custom |-> JSstring(<<"error">>)]) =>
             ret.value.v = <<"{", "\"", "custom", "\":", "\"", "error", "\"", "}">>
       /\ args.error = JSnull => ret.value.v = <<"null">>


\* C23: after any sequence of loadConfig, buildApiPayload and handleQuestion
\* calls, every object that existed before the sequence, defaultConfig among
\* them, and every config a call returned hold the values they held.
C23_ConfigsAreReadOnly ==
    ret.fn = "frame" =>
       /\ \A r \in 1..Len(args.heap) : ret.heap[r] = args.heap[r]
       /\ \A c \in ret.configs : HeapValue(ret.heap, c.ref) = c.value

C23_Witness ==
    /\ ret.fn = "frame"
    /\ ret.calls = 3
    /\ Cardinality(ret.configs) >= 3
    /\ args.file.exists /\ args.file.raw # <<>>
    /\ args.env.PPLX_API_TIMEOUT # JSundefined
    /\ \E c \in ret.configs :
          /\ c.ref # args.defaults
          /\ c.value # defaultConfigValue
          /\ c.value = loadConfig(args.file, args.env).value


\* An input that ends the session: a prompt exception or an exit command.
C24_Ends(input) ==
    \/ input.t = "throw"
    \/ \E s \in {<<"exit">>, <<"EXIT">>, <<"Quit">>, <<":exit">>} :
          \E a, b \in {<<>>, <<SP>>, <<NL>>} : input.v = a \o s \o b

\* An input that is blank or a help command.
C24_Skipped(input) ==
    /\ input.t = "string"
    /\ \/ \A i \in 1..Len(input.v) : input.v[i] \in {SP, NL}
       \/ \E s \in {<<"help">>, <<":Help">>} :
             \E a, b \in {<<>>, <<SP>>, <<NL>>} : input.v = a \o s \o b

\* C24: ask is invoked once, with the trimmed input and the session's
\* options, for each input before the first exit command or prompt exception
\* that is neither blank nor help, in input order and one at a time; a
\* rejected ask does not end the session; after the exit command or the
\* exception nothing is prompted or asked.
C24_OneAskPerQuestion ==
    ret.fn = "startInteractiveSession" =>
       LET n == Len(ret.inputs)
           questions == SelectSeq(ret.inputs,
                                  LAMBDA input : ~C24_Ends(input) /\ ~C24_Skipped(input))
       IN /\ \A i \in 1..n : C24_Ends(ret.inputs[i]) => i = n
          /\ Len(ret.asked) = Len(questions)
          /\ \A k \in 1..Len(questions) :
                /\ ret.asked[k].options = args.options
                /\ ret.asked[k].question = Trim(questions[k].v)
                /\ ret.asked[k].question # <<>>
                /\ Head(ret.asked[k].question) \notin {SP, NL}
                /\ ret.asked[k].question[Len(ret.asked[k].question)] \notin {SP, NL}
          /\ ret.settled \in {Len(ret.asked), Len(ret.asked) - 1}
          /\ ret.pc = "asking" <=> ret.settled = Len(ret.asked) - 1
          /\ ret.pc = "returned" <=> (n > 0 /\ C24_Ends(ret.inputs[n]))
          /\ ret.pc # "threw"

C24_Witness ==
    /\ ret.fn = "startInteractiveSession"
    /\ ret.inputs = <<JSstring(<<SP, "q1">>), JSstring(<<":quit">>), JSstring(<<"EXIT">>)>>
    /\ Len(ret.asked) = 2
    /\ ret.asked[1].question = <<"q1">>
    /\ Len(ret.stderr) = 1
    /\ ret.pc = "returned"


\* The entered key is one ensureApiKeyInteractive stores: not blank, and
\* accepted by validateApiKeyFormat.
C25_Accepted == Trim(args.key) # <<>> /\ validateApiKeyFormat(JSstring(args.key)).valid

\* The settings file holds the key under api.key.
C25_ConfigHolds(file, key) ==
    /\ file.exists
    /\ YAMLparse(file.content).t = "object"
    /\ Member(Member(YAMLparse(file.content), "api"), "key") = JSstring(key)

\* C25: ensureApiKeyInteractive stores a key only when validateApiKeyFormat
\* accepts it: on an empty or rejected key it throws and leaves .env and
\* .pplxrc as they were; on an accepted key it returns the trimmed key and
\* both files hold it.
C25_StoresOnlyAcceptedKeys ==
    ret.fn = "ensureApiKeyInteractive" =>
       IF C25_Accepted
       THEN /\ ~ret.threw
            /\ ret.value = JSstring(Trim(args.key))
            /\ ret.envFile.exists
            /\ ret.envFile.content = <<EnvLine("PPLX_API_KEY", Trim(args.key))>>
            /\ C25_ConfigHolds(ret.configFile, Trim(args.key))
       ELSE /\ ret.threw
            /\ ret.envFile = args.envFile
            /\ ret.configFile = args.configFile

\* The first half of C25 alone: nothing is stored for a key that is empty
\* or rejected.
C25_RejectedKeyStoresNothing ==
    (ret.fn = "ensureApiKeyInteractive" /\ ~C25_Accepted) =>
       /\ ret.threw
       /\ ret.envFile = args.envFile
       /\ ret.configFile = args.configFile

\* The second half of C25 where loadConfig() returns.
C25_AcceptedKeyIsStored ==
    (ret.fn = "ensureApiKeyInteractive" /\ C25_Accepted
        /\ loadConfig(settingsAt(args.configFile), args.env).value.t # "throw") =>
       /\ ~ret.threw
       /\ ret.value = JSstring(Trim(args.key))
       /\ ret.envFile.content = <<EnvLine("PPLX_API_KEY", Trim(args.key))>>
       /\ C25_ConfigHolds(ret.configFile, Trim(args.key))


\* C26: with no PPLX_* variable set, saveConfig(c, dir/.pplxrc) followed by
\* loadConfig(dir) returns a config equal to c, for every fully defined c.
C26_SaveLoadRoundTrip ==
    (args.fn = "roundTrip" /\ ret.fn = "loadConfig") =>
       ~ret.threw /\ ret.value = args.config

\* A config whose key reads as a number in YAML, saved over an older file
\* and loaded back.
C26_Witness ==
    /\ args.fn = "roundTrip" /\ ret.fn = "loadConfig"
    /\ args.target.exists
    /\ Member(Member(args.config, "api"), "key") = JSstring(<<"5000">>)
    /\ Member(Member(args.config, "models"), "default") = JSstring(<<"null">>)
    /\ ret.value = args.config


\* handleQuestion has a key to go on with: one is resolved, or the one
\* entered at the prompt is accepted.
C27_KeyIsSet ==
    \/ ~Falsy(Nullish(args.envKey, args.config.api.key))
    \/ Trim(args.entered) # <<>> /\ validateApiKeyFormat(JSstring(args.entered)).valid

\* The one transport call the claim describes, and the report of its failure.
C27_OneTransport ==
    /\ Len(ret.transports) = 1
    /\ ret.transports[1].kind = "stream"
          <=> \/ args.options.stream = JSboolean(TRUE)
              \/ args.options.stream = JSundefined /\ args.config.output.stream
    /\ ret.transports[1].question = args.question
    /\ ret.transports[1].options =
          [model |-> args.options.model, searchMode |-> args.options.searchMode]
    /\ ret.pc # "threw"
    /\ (ret.pc = "returned" /\ ret.rejection # JSundefined) =>
          /\ ret.exitCode = 1
          /\ Len(ret.stderr) = 1 /\ ret.stderr[1].t = "string"
          /\ ret.stderr[1] = formatError(ret.rejection)
    /\ (ret.pc = "returned" /\ ret.rejection = JSundefined) =>
          ret.exitCode = 0 /\ ret.stderr = <<>>

C28_ChunkBoundaryIndependence ==
    (ret.fn = "deliver" /\ ret.c.stream = "ended") =>
       /\ ret.fragments = deliverWhole(args.body).fragments
       /\ ret.c.promise.state = deliverWhole(args.body).outcome

\* The body holds a character of more than one byte.
C28_Multibyte == \E k \in 1..Len(args.body) : args.body[k] \in {ByteC3, ByteA9}

\* The body holds a line after a frame the decoder takes for the terminal
\* one: '[DONE]', or a content of 'done'.
C28_LineAfterDone ==
    \E k \in 1..Len(args.body) : \E j \in (k + 1)..(Len(args.body) - 1) :
       args.body[k] \in {DONE, "done"} /\ args.body[j] = NL

\* C28 on the bodies of single-byte characters with nothing after their
\* terminal frame: there the cuts make no difference.
C28_IndependentElsewhere ==
    (ret.fn = "deliver" /\ ret.c.stream = "ended"
        /\ ~C28_Multibyte /\ ~C28_LineAfterDone) =>
       /\ ret.fragments = deliverWhole(args.body).fragments
       /\ ret.c.promise.state = deliverWhole(args.body).outcome

\* C28 fails without a terminal frame in the body: a cut inside a character.
C28_MultibyteAlone ==
    (ret.fn = "deliver" /\ ret.c.stream = "ended" /\ ~C28_LineAfterDone) =>
       ret.fragments = deliverWhole(args.body).fragments


\* p is w with some of its items left out.
RECURSIVE C29_IsSubsequence(_, _)
C29_IsSubsequence(p, w) ==
    IF p = <<>> THEN TRUE
    ELSE IF w = <<>> THEN FALSE
    ELSE IF Head(p) = Head(w) THEN C29_IsSubsequence(Tail(p), Tail(w))
    ELSE C29_IsSubsequence(p, Tail(w))

\* C29: after each chunk the buffer holds no newline and is the text
\* received so far after its last newline (all of it when there is none),
\* and every line is passed to the parser at most once: the lines parsed are
\* lines received, each taken once and in order, the unterminated last one
\* only by the end handler.
C29_BufferInvariant ==
    ret.fn = "deliver" =>
       LET segs == split(ret.c.received) IN
       /\ \A k \in 1..Len(ret.c.buffer) : ret.c.buffer[k] # NL
       /\ ret.c.buffer = segs[Len(segs)]
       /\ \A n \in 1..Len(ret.buffers) : \A k \in 1..Len(ret.buffers[n]) :
             ret.buffers[n][k] # NL
       /\ IF ret.c.stream = "open"
          THEN C29_IsSubsequence(ret.c.parsed, SubSeq(segs, 1, Len(segs) - 1))
          ELSE C29_IsSubsequence(ret.c.parsed, segs)

\* Two chunks have been processed: the first ends inside a line, the second
\* completes it, which has it parsed, and ends inside the next one.
C29_Witness ==
    /\ ret.fn = "deliver" /\ ret.c.stream = "open"
    /\ Len(ret.chunks) = 2
    /\ ret.buffers[1] # <<>>
    /\ ret.c.buffer # <<>> /\ ret.c.buffer # ret.buffers[1]
    /\ Len(ret.c.parsed) = 1
    /\ ret.c.wire # <<>>


\* C30: resolveApiKey returns a non-empty key whenever the environment key
\* or config.api.key is a non-empty string, the environment key when both
\* are; a request fails with MISSING_KEY only when neither is non-empty.
C30_KeyResolution ==
    \A i \in CallIds :
       (pin # NoInput /\ calls[i].kind # "none") =>
          LET envSet == ~Falsy(pin.envKey)
              configSet == ~Falsy(pin.config.api.key)
              key == resolveApiKey(pin.envKey, pin.config)
          IN /\ (envSet \/ configSet) => ~Falsy(key)
             /\ (envSet /\ configSet) => key = pin.envKey
             /\ calls[i].promise = Rejected(MissingKeyError) => (~envSet /\ ~configSet)

\* C30 where the environment key is not the empty string.
C30_ResolutionUnlessEmptyEnvKey ==
    \A i \in CallIds :
       (pin # NoInput /\ calls[i].kind # "none" /\ pin.envKey # JSstring(<<>>)) =>
          LET envSet == ~Falsy(pin.envKey)
              configSet == ~Falsy(pin.config.api.key)
              key == resolveApiKey(pin.envKey, pin.config)
          IN /\ (envSet \/ configSet) => ~Falsy(key)
             /\ (envSet /\ configSet) => key = pin.envKey
             /\ calls[i].promise = Rejected(MissingKeyError) => (~envSet /\ ~configSet)

\* C30 in handleQuestion: a transport that is given a config with a
\* non-empty key does not fail with MISSING_KEY.
C30_PromptedKeyIsUsed ==
    (ret.fn = "handleQuestion" /\ ret.pc = "returned"
        /\ ~Falsy(ret.transports[1].config.api.key)) =>
       ret.rejection # JSerror(MissingKeyError)

====
